---- MODULE Spec2Model ----
(***************************************************************************)
(* Model of the chat server's real-time core: the moderation service       *)
(* (server/services/moderation.service.ts, second part of                  *)
(* src/server/services/supabase.service.ts), the persistence gateway       *)
(* (SupabaseService) and the socket handlers (server/socket/handlers.ts).  *)
(*                                                                         *)
(* Every await of a handler is a point where other handlers interleave, so *)
(* a handler is a sequence of steps, one per awaited call, with a program  *)
(* counter kept in the request's record.  Every persistence call may fail  *)
(* (supabase returns {error}, the service throws).  Scores are in          *)
(* hundredths: 0.8 is 80, 0.5 is 50.                                       *)
(***************************************************************************)
EXTENDS Integers, Sequences, FiniteSets, TLC

\* ------------------------------------------------------------ universe
Users == {"A", "B"}
Conns == {"sA", "sA2", "sB"}
Chats == {"c1", "c2"}
Categories == {"hate", "violence"}

\* socket.data.userId of each connection (handlers.ts:43,52)
userIdOf(c) == IF c = "sB" THEN "B" ELSE "A"

\* the {content, tempId} of the r-th message:send: the client's tempId is
\* `temp-${Date.now()}`, a fresh value per message
PayloadOf(r) == [content |-> IF r % 2 = 1 THEN "hello" ELSE "again",
                 tempId |-> 1000 + r]

\* the rooms the connections are joined to while messages are sent: sA is in both
\* rooms, A's second connection sA2 only in c1, sB only in c2, so that for every
\* chat there is a sender in its room and a sender outside it
JoinedRooms == [c \in Conns |-> IF c = "sA" THEN {"c1", "c2"}
                                ELSE IF c = "sA2" THEN {"c1"} ELSE {"c2"}]

\* bounds of the model
MaxSends == 2
MaxReceipts == 2
MaxSeenLen == 2
MaxCalls == 6
MaxCreates == 3
MaxOverlap == 2
MaxSummaries == 2
MaxTyping == 1
\* typing:start requests
MaxTypingStarts == 2
\* messages:fetch and messages:search requests
MaxQueries == 1
\* rows of the table messages when the queries run
MaxStored == 3
\* message:send requests while connections close
MaxClosingSends == 1
\* sockets one client creates, sendMessage calls and receipt events of one client
MaxClientSockets == 2
MaxClientSends == 2
MaxClientReceipts == 2

\* ------------------------------------------------------------ moderation
blockThreshold == 80
flagThreshold == 50
maxFailures == 5

ScoreVals == {10, 49, 50, 79, 80, 95}

\* moderation.results[0] of a successful classifier call: its own flagged bit
\* and the category_scores it returns
ScoreMaps == UNION { [D -> ScoreVals] : D \in SUBSET Categories }
ClassifierResponses ==
  { [ok |-> TRUE, flagged |-> f, category_scores |-> s] : f \in BOOLEAN, s \in ScoreMaps }
ClassifierFailure == [ok |-> FALSE, flagged |-> FALSE, category_scores |-> <<>>]
ClassifierOutcomes == ClassifierResponses \cup {ClassifierFailure}

\* the responses drawn while a message:send is in flight (a subset, to bound the run)
SendOutcomes ==
  { [ok |-> TRUE, flagged |-> FALSE, category_scores |-> [c \in {"hate"} |-> 10]],
    [ok |-> TRUE, flagged |-> TRUE,  category_scores |-> [c \in {"hate"} |-> 10]],
    [ok |-> TRUE, flagged |-> FALSE, category_scores |-> [c \in {"hate"} |-> 50]],
    [ok |-> TRUE, flagged |-> TRUE,  category_scores |-> [c \in {"hate"} |-> 80]],
    ClassifierFailure }

\* process.env of the server: which AI services are configured
AiConfigs == [openai : BOOLEAN, huggingface : BOOLEAN]
OPENAI_ENABLED(cfg) == cfg.openai
HUGGINGFACE_ENABLED(cfg) == cfg.huggingface
AI_ENABLED(cfg) == OPENAI_ENABLED(cfg) \/ HUGGINGFACE_ENABLED(cfg)

\* the comparison written with > where the code has >=
SomeScoreAbove(scores, threshold) ==
  \E k \in DOMAIN scores : scores[k] > threshold

\* Object.entries(result.category_scores).some(([, score]) => score >= threshold)
SomeScoreAtLeast(scores, threshold) ==
  \E k \in DOMAIN scores : scores[k] >= threshold

shouldBlock(scores) == SomeScoreAtLeast(scores, blockThreshold)
shouldFlag(scores) == SomeScoreAtLeast(scores, flagThreshold)

\* a default that fails closed: the message is blocked when the classifier is not there
ApiErrorResultFailClosed ==
  [flagged |-> FALSE, blocked |-> TRUE, categoryScores |-> <<>>, apiError |-> TRUE]

\* the "safe default" returned when moderation is skipped or the call throws
ApiErrorResult ==
  [flagged |-> FALSE, blocked |-> FALSE, categoryScores |-> <<>>, apiError |-> TRUE]

\* moderateMessage before its await: TRUE when it returns without calling the classifier
ModerationSkipped(cfg, count) ==
  \/ ~AI_ENABLED(cfg)
  \/ count >= maxFailures
  \/ ~OPENAI_ENABLED(cfg)

\* moderateMessage after openai.moderations.create settles: the result returned
ModerationResult(outcome) ==
  IF outcome.ok
  THEN [flagged |-> outcome.flagged \/ shouldFlag(outcome.category_scores),
        blocked |-> shouldBlock(outcome.category_scores),
        categoryScores |-> outcome.category_scores,
        apiError |-> FALSE]
  ELSE ApiErrorResult

\* ... and what it leaves in this.apiFailureCount
FailureCountAfter(count, outcome) ==
  IF outcome.ok THEN 0 ELSE count + 1

\* the three-way verdict of a ModerationResult
Verdict(res) ==
  IF res.blocked THEN "block" ELSE IF res.flagged THEN "flag" ELSE "allow"

VARIABLES
  aiConfig,         \* OPENAI_ENABLED / HUGGINGFACE_ENABLED, fixed at start
  apiFailureCount,  \* ModerationService.apiFailureCount
  modCalls,         \* number of moderateMessage calls made (SpecMod)
  lastCall,         \* the last moderateMessage call: what the classifier did, what was returned
  rooms,            \* socket.io rooms: the chats each connection is joined to
  inbox,            \* the events emitted to each connection, in order
  messages,         \* table messages; a row's id is its index
  moderation_logs,  \* table moderation_logs
  updated_at,       \* chats.updated_at, as the number of bumps
  sendReq,          \* the message:send handlers: one record per request
  chat_members,     \* table chat_members; last_read_at as the number of updates
  rcpt,             \* the message:read / message:delivered / message:seen handlers
  chats,            \* table chats, in insertion order
  online,           \* users.online of each user
  onlineUsers,      \* the Map onlineUsers, as its set of <<userId, socketId>> entries
  sock,             \* each socket: how far its handshake and setup got, whether it is open
  chatReq,          \* the chat:create handlers: one record per request
  sumReq,           \* the chat:summary handlers: one record per request
  typReq,           \* the typing:start handlers: one record per request
  qryReq,           \* the messages:fetch / messages:search handlers
  client            \* one browser client: its SocketService and its chat store

vars == << aiConfig, apiFailureCount, modCalls, lastCall, rooms, inbox,
           messages, moderation_logs, updated_at, sendReq, chat_members, rcpt,
           chats, online, onlineUsers, sock, chatReq, sumReq, typReq, qryReq,
           client >>

\* the state of connections, chats, chat:create, chat:summary, typing and queries
sessionVars == << chats, online, onlineUsers, sock, chatReq, sumReq, typReq, qryReq,
                 client >>

NoCall == [called |-> FALSE, skipped |-> FALSE, outcome |-> ClassifierFailure,
           result |-> ApiErrorResult]

IdleSend == [pc |-> "idle", conn |-> "sA", chatId |-> "c1", content |-> "",
             tempId |-> 0, classifier |-> "none", mod |-> ApiErrorResult,
             messageId |-> 0, failed |-> "none"]

\* ------------------------------------------------------------ moderation alone
modVars == << rooms, inbox, messages, moderation_logs, updated_at, sendReq,
             chat_members, rcpt, sessionVars >>

IdleRcpt == [pc |-> "idle", kind |-> "none", conn |-> "sA", chatId |-> "c1",
             ids |-> <<>>, i |-> 0, readBy |-> <<>>]

\* the memberships behind JoinedRooms: A is in both chats, B in c2
InitMembers == << [chat_id |-> "c1", user_id |-> "A", last_read_at |-> 0],
                 [chat_id |-> "c2", user_id |-> "A", last_read_at |-> 0],
                 [chat_id |-> "c2", user_id |-> "B", last_read_at |-> 0] >>

\* the chats behind InitMembers: a group with A alone so far, and the direct chat of A and B
InitChats == << [id |-> "c1", is_group |-> TRUE, created_by |-> "A"],
               [id |-> "c2", is_group |-> FALSE, created_by |-> "A"] >>

\* a socket before its handshake
\* (verified is what getUser did for the socket's token, disc how far its disconnect
\* listener got, setup whether the persistence calls of the connection handler
\* succeeded)
NewSocket == [state |-> "new", open |-> FALSE, token |-> "none", verified |-> "none",
              disc |-> "none", setup |-> "none"]

\* a socket whose connection handler has run to its end: all listeners registered
ActiveSocket == [state |-> "active", open |-> TRUE, token |-> "good", verified |-> "user",
                 disc |-> "none", setup |-> "ok"]

\* onlineUsers once sA, sB and then sA2 have connected: A's entry is its last socket
EstablishedUsers == { << "A", "sA2" >>, << "B", "sB" >> }

IdleChat == [pc |-> "idle", conn |-> "sA", isGroup |-> FALSE, memberIds |-> <<>>,
             direct |-> FALSE, reused |-> FALSE, overlap |-> FALSE, chatId |-> "none", i |-> 0,
             failed |-> "none"]

IdleSum == [pc |-> "idle", conn |-> "sA", chatId |-> "c1", fetched |-> "none",
            openai |-> "none", hf |-> "none", failed |-> "none"]

\* an argument the client left out (no limit or offset is negative)
undefined == -1

\* the client when the page has loaded: SocketService.socket is null (0), the store
\* has no message list (keys is Object.keys(messages), in insertion order), nothing
\* is in flight; sent and receipts count calls, last is the last receipt event
NewClient ==
  [sockets |-> [k \in 1..MaxClientSockets |-> "none"], socket |-> 0,
   keys |-> << >>, lists |-> [ch \in Chats |-> << >>], net |-> << >>,
   sent |-> 0, receipts |-> 0,
   last |-> [kind |-> "none", ids |-> {}, userId |-> "A"]]

\* a typing:start handler that has not started
IdleTyp == [pc |-> "idle", conn |-> "sA", chatId |-> "c1"]

\* a messages:fetch / messages:search handler that has not started
IdleQry == [pc |-> "idle", conn |-> "sA", kind |-> "none", chatId |-> "c1",
            limit |-> undefined, offset |-> undefined, query |-> << >>,
            chatIds |-> {}]

\* the three sockets connected and set up, no chat:create and no chat:summary under way
SessionEstablished ==
  /\ chats = InitChats
  /\ online = [u \in Users |-> TRUE]
  /\ onlineUsers = EstablishedUsers
  /\ sock = [c \in Conns |-> ActiveSocket]
  /\ chatReq = [q \in 1..MaxCreates |-> IdleChat]
  /\ sumReq = [q \in 1..MaxSummaries |-> IdleSum]
  /\ typReq = [h \in 1..MaxTypingStarts |-> IdleTyp]
  /\ qryReq = [f \in 1..MaxQueries |-> IdleQry]
  /\ client = NewClient

InitCommon ==
  /\ SessionEstablished
  /\ aiConfig \in AiConfigs
  /\ apiFailureCount = 0
  /\ modCalls = 0
  /\ lastCall = NoCall
  /\ inbox = [c \in Conns |-> <<>>]
  /\ messages = <<>>
  /\ moderation_logs = {}
  /\ updated_at = [ch \in Chats |-> 0]
  /\ sendReq = [r \in 1..MaxSends |-> IdleSend]
  /\ chat_members = InitMembers
  /\ rcpt = [h \in 1..MaxReceipts |-> IdleRcpt]

InitMod ==
  /\ InitCommon
  /\ rooms = [c \in Conns |-> {}]

\* one whole moderateMessage call, no other call in between
ModerateCall(outcome) ==
  /\ modCalls < MaxCalls
  /\ modCalls' = modCalls + 1
  /\ IF ModerationSkipped(aiConfig, apiFailureCount)
     THEN /\ lastCall' = [called |-> TRUE, skipped |-> TRUE, outcome |-> ClassifierFailure,
                          result |-> ApiErrorResult]
          /\ UNCHANGED apiFailureCount
     ELSE /\ lastCall' = [called |-> TRUE, skipped |-> FALSE, outcome |-> outcome,
                          result |-> ModerationResult(outcome)]
          /\ apiFailureCount' = FailureCountAfter(apiFailureCount, outcome)
  /\ UNCHANGED << aiConfig, modVars >>

NextMod == \E outcome \in ClassifierOutcomes : ModerateCall(outcome)

SpecMod == InitMod /\ [][NextMod]_vars

\* ------------------------------------------------------------ transport
\* io.to(`chat:${chatId}`): every connection joined to the chat's room
RoomOf(chatId) == { c \in Conns : chatId \in rooms[c] }

\* socket.to(`chat:${chatId}`): the room without the emitting socket
OthersInRoom(c, chatId) == RoomOf(chatId) \ {c}

\* the inboxes after one emit of ev to the connections in targets
Emit(targets, ev) ==
  [c \in Conns |-> IF c \in targets THEN Append(inbox[c], ev) ELSE inbox[c]]

\* ------------------------------------------------------------ persistence
\* the row createMessage inserts; read_by and delivered_to start empty
NewMessageRow(chatId, senderId, content, isFlagged, isBlocked) ==
  [chat_id |-> chatId, sender_id |-> senderId, content |-> content,
   is_flagged |-> isFlagged, is_blocked |-> isBlocked,
   read_by |-> <<>>, delivered_to |-> <<>>]

\* the row createModerationLog inserts
NewModerationLog(messageId, flagged, categoryScores) ==
  [message_id |-> messageId, flagged |-> flagged, category_scores |-> categoryScores]

\* ------------------------------------------------------------ message:send
\* the branch without its return: a blocked message goes on to createMessage
SendAfterModerationNoReturn(res) == "create"

\* the handler's branch on moderationResult.blocked
SendAfterModeration(res) == IF res.blocked THEN "blocked" ELSE "create"

\* io.emit where the code has socket.emit
BlockedRecipientsAll(c) == Conns

\* socket.emit('message:blocked', ...): the sender's connection
BlockedRecipients(c) == {c}

\* io.emit where the code has socket.emit
ErrorRecipientsAll(c) == Conns

\* socket.emit('message:error', ...) in the catch: the sender's connection
ErrorRecipients(c) == {c}

\* a result that is dropped when the sender's connection is gone
NewMessageRecipientsIfOpen(c, chatId) == IF sock[c].open THEN RoomOf(chatId) ELSE {}

\* socket.to where the code has io.to: the sender gets no echo
NewMessageRecipientsSkipSender(c, chatId) == RoomOf(chatId) \ {c}

\* io.to(`chat:${chatId}`).emit('message:new', ...): the whole room
NewMessageRecipients(c, chatId) == RoomOf(chatId)

MessageBlocked(r, tempId) ==
  [type |-> "message:blocked", req |-> r, tempId |-> tempId,
   reason |-> "Message contains inappropriate content"]

MessageError(r, tempId) ==
  [type |-> "message:error", req |-> r, tempId |-> tempId,
   error |-> "Failed to send message"]

\* { ...message, sender, tempId }
MessageNew(r, id, row, sender, tempId) ==
  [type |-> "message:new", req |-> r, tempId |-> tempId, id |-> id,
   chat_id |-> row.chat_id, sender_id |-> row.sender_id, content |-> row.content,
   is_flagged |-> row.is_flagged, sender |-> sender]

\* the catch block of the handler: message:error to the sender, handler over
SendFails(r, step) ==
  /\ inbox' = Emit(ErrorRecipients(sendReq[r].conn), MessageError(r, sendReq[r].tempId))
  /\ sendReq' = [sendReq EXCEPT ![r].pc = "error", ![r].failed = step]

\* a client emits message:send; the handler calls moderateMessage, which either
\* returns the safe default at once or awaits the classifier
SendStart(r, c, chatId) ==
  /\ sock[c].state = "active" /\ sock[c].open
  /\ sendReq[r].pc = "idle"
  /\ IF r = 1 THEN TRUE ELSE sendReq[r - 1].pc # "idle"
  /\ sendReq' = [sendReq EXCEPT ![r] =
       [@ EXCEPT !.pc = "moderate", !.conn = c, !.chatId = chatId,
                 !.content = PayloadOf(r).content, !.tempId = PayloadOf(r).tempId,
                 !.classifier = IF ModerationSkipped(aiConfig, apiFailureCount)
                                THEN "skipped" ELSE "called"]]
  /\ UNCHANGED << aiConfig, apiFailureCount, modCalls, lastCall, rooms, inbox,
                  messages, moderation_logs, updated_at, chat_members, rcpt, sessionVars >>

\* moderateMessage returns (outcome is what openai.moderations.create did, when it
\* was called); the handler runs on to message:blocked or up to createMessage
SendModerated(r, outcome) ==
  /\ sendReq[r].pc = "moderate"
  /\ LET skipped == sendReq[r].classifier = "skipped"
         res == IF skipped THEN ApiErrorResult ELSE ModerationResult(outcome)
         cls == IF skipped THEN "skipped" ELSE IF outcome.ok THEN "ok" ELSE "failed"
     IN /\ apiFailureCount' = IF skipped THEN apiFailureCount
                               ELSE FailureCountAfter(apiFailureCount, outcome)
        /\ IF SendAfterModeration(res) = "blocked"
           THEN /\ inbox' = Emit(BlockedRecipients(sendReq[r].conn),
                                 MessageBlocked(r, sendReq[r].tempId))
                /\ sendReq' = [sendReq EXCEPT ![r].pc = "blocked", ![r].mod = res,
                                              ![r].classifier = cls]
           ELSE /\ sendReq' = [sendReq EXCEPT ![r].pc = "create", ![r].mod = res,
                                              ![r].classifier = cls]
                /\ UNCHANGED inbox
  /\ UNCHANGED << aiConfig, modCalls, lastCall, rooms, messages, moderation_logs,
                  updated_at, chat_members, rcpt, sessionVars >>

\* createMessage: the insert, then the bump of chats.updated_at, whose error is ignored
SendCreateMessage(r, ok, bumped) ==
  /\ sendReq[r].pc = "create"
  /\ IF ok
     THEN /\ messages' = Append(messages,
                 NewMessageRow(sendReq[r].chatId, userIdOf(sendReq[r].conn),
                               sendReq[r].content, sendReq[r].mod.flagged,
                               sendReq[r].mod.blocked))
          /\ updated_at' = [updated_at EXCEPT ![sendReq[r].chatId] =
                              IF bumped THEN @ + 1 ELSE @]
          /\ sendReq' = [sendReq EXCEPT ![r].pc = "log",
                                        ![r].messageId = Len(messages) + 1]
          /\ UNCHANGED inbox
     ELSE /\ SendFails(r, "create")
          /\ UNCHANGED << messages, updated_at >>
  /\ UNCHANGED << aiConfig, apiFailureCount, modCalls, lastCall, rooms, moderation_logs,
                  chat_members, rcpt, sessionVars >>

\* createModerationLog
SendCreateLog(r, ok) ==
  /\ sendReq[r].pc = "log"
  /\ IF ok
     THEN /\ moderation_logs' = moderation_logs \cup
               { NewModerationLog(sendReq[r].messageId, sendReq[r].mod.flagged,
                                  sendReq[r].mod.categoryScores) }
          /\ sendReq' = [sendReq EXCEPT ![r].pc = "sender"]
          /\ UNCHANGED inbox
     ELSE /\ SendFails(r, "log")
          /\ UNCHANGED moderation_logs
  /\ UNCHANGED << aiConfig, apiFailureCount, modCalls, lastCall, rooms, messages,
                  updated_at, chat_members, rcpt, sessionVars >>

\* getUserById, then the broadcast of message:new
SendGetSender(r, ok) ==
  /\ sendReq[r].pc = "sender"
  /\ IF ok
     THEN /\ inbox' = Emit(NewMessageRecipients(sendReq[r].conn, sendReq[r].chatId),
                           MessageNew(r, sendReq[r].messageId,
                                      messages[sendReq[r].messageId],
                                      userIdOf(sendReq[r].conn), sendReq[r].tempId))
          /\ sendReq' = [sendReq EXCEPT ![r].pc = "delivered"]
     ELSE SendFails(r, "sender")
  /\ UNCHANGED << aiConfig, apiFailureCount, modCalls, lastCall, rooms, messages,
                  moderation_logs, updated_at, chat_members, rcpt, sessionVars >>

InitSend ==
  /\ InitCommon
  /\ rooms = JoinedRooms

NextSend ==
  \E r \in 1..MaxSends :
    \/ \E c \in Conns, chatId \in Chats : SendStart(r, c, chatId)
    \/ \E outcome \in SendOutcomes : SendModerated(r, outcome)
    \/ \E ok \in BOOLEAN, bumped \in BOOLEAN : SendCreateMessage(r, ok, bumped)
    \/ \E ok \in BOOLEAN : SendCreateLog(r, ok)
    \/ \E ok \in BOOLEAN : SendGetSender(r, ok)

SpecSend == InitSend /\ [][NextSend]_vars

\* ------------------------------------------------------------ properties of message:send
SendIds == 1..MaxSends
Terminal == {"blocked", "delivered", "error"}

\* the places in c's inbox of the events of one type that request r caused
EventsOf(c, type, r) ==
  { k \in 1..Len(inbox[c]) : inbox[c][k].type = type /\ inbox[c][k].req = r }

\* every row of table messages was inserted by one request, which holds its id
RowsMatchRequests ==
  /\ Len(messages) = Cardinality({ r \in SendIds : sendReq[r].messageId # 0 })
  /\ \A r \in SendIds : sendReq[r].messageId \in 0..Len(messages)

\* C1: a message:send whose moderation result is block creates no message row
\* (no request with a block verdict holds a row, no stored row is a blocked one)
\* and no message:new for it is emitted to any connection.
C1_BlockedNeverStoredNorBroadcast ==
  /\ RowsMatchRequests
  /\ \A m \in 1..Len(messages) : ~messages[m].is_blocked
  /\ \A r \in SendIds :
       sendReq[r].mod.blocked =>
         /\ sendReq[r].messageId = 0
         /\ \A c \in Conns : EventsOf(c, "message:new", r) = {}

C1_Witness ==
  \E r, q \in SendIds :
    /\ sendReq[r].pc = "blocked" /\ sendReq[r].mod.blocked
    /\ sendReq[q].pc = "delivered" /\ sendReq[q].chatId = sendReq[r].chatId

\* C2: when a message:send to chat C gets a non-block verdict and every persistence
\* call succeeds (the handler reaches its broadcast), each connection joined to
\* room C, the sender's too when it is joined, holds exactly one message:new of the
\* request, with the request's content and tempId; no other connection holds one.
C2_DeliveredOncePerRoomMember ==
  \A r \in SendIds :
    sendReq[r].pc = "delivered" =>
      /\ ~sendReq[r].mod.blocked /\ sendReq[r].failed = "none"
      /\ \A c \in Conns :
           LET got == EventsOf(c, "message:new", r)
           IN IF c \in RoomOf(sendReq[r].chatId)
              THEN /\ Cardinality(got) = 1
                   /\ \A k \in got :
                        /\ inbox[c][k].content = sendReq[r].content
                        /\ inbox[c][k].tempId = sendReq[r].tempId
                        /\ inbox[c][k].id = sendReq[r].messageId
                        /\ inbox[c][k].chat_id = sendReq[r].chatId
              ELSE got = {}

C2_Witness ==
  \E r \in SendIds :
    /\ sendReq[r].pc = "delivered"
    /\ sendReq[r].conn \in RoomOf(sendReq[r].chatId)
    /\ \E c \in RoomOf(sendReq[r].chatId) :
         c # sendReq[r].conn /\ EventsOf(c, "message:new", r) # {}

\* the classifier was not there for request r: moderation disabled or skipped,
\* or the call failed
Degraded(r) == sendReq[r].classifier \in {"skipped", "failed"}

C4_LogFailureStillDelivers ==
  \A r \in SendIds :
    sendReq[r].failed = "log" /\ sendReq[r].pc \in Terminal =>
      /\ sendReq[r].messageId # 0
      /\ \A c \in RoomOf(sendReq[r].chatId) : EventsOf(c, "message:new", r) # {}

\* C5: if persisting the message fails after a non-block verdict, exactly one
\* message:error with the request's tempId is emitted, to the sender's connection
\* only, no message:new is emitted to any connection, and no row exists for it.
C5_CreateFailure ==
  /\ RowsMatchRequests
  /\ \A r \in SendIds :
       sendReq[r].failed = "create" =>
         /\ ~sendReq[r].mod.blocked
         /\ sendReq[r].pc = "error"
         /\ sendReq[r].messageId = 0
         /\ Cardinality(EventsOf(sendReq[r].conn, "message:error", r)) = 1
         /\ \A k \in EventsOf(sendReq[r].conn, "message:error", r) :
              inbox[sendReq[r].conn][k].tempId = sendReq[r].tempId
         /\ \A c \in Conns :
              /\ c # sendReq[r].conn => EventsOf(c, "message:error", r) = {}
              /\ EventsOf(c, "message:new", r) = {}
              /\ EventsOf(c, "message:blocked", r) = {}

C5_Witness ==
  \E r, q \in SendIds :
    /\ sendReq[r].failed = "create" /\ sendReq[r].pc = "error"
    /\ sendReq[q].pc = "delivered" /\ sendReq[q].conn # sendReq[r].conn
    /\ sendReq[r].conn \in RoomOf(sendReq[q].chatId)

\* C6: on a block verdict the sender's connection holds exactly one message:blocked
\* of the request, with its tempId and a reason, and holds nothing else of it; no
\* other connection holds any event of the request.
C6_BlockedToSenderOnly ==
  \A r \in SendIds :
    sendReq[r].mod.blocked =>
      /\ sendReq[r].pc = "blocked"
      /\ Cardinality(EventsOf(sendReq[r].conn, "message:blocked", r)) = 1
      /\ \A c \in Conns : \A k \in 1..Len(inbox[c]) :
           inbox[c][k].req = r =>
             /\ c = sendReq[r].conn
             /\ inbox[c][k].type = "message:blocked"
             /\ inbox[c][k].tempId = sendReq[r].tempId
             /\ inbox[c][k].reason # ""

C6_Witness ==
  \E r \in SendIds :
    /\ sendReq[r].pc = "blocked"
    /\ Cardinality(RoomOf(sendReq[r].chatId)) > 1
    /\ sendReq[r].conn \in RoomOf(sendReq[r].chatId)

\* ------------------------------------------------------------ properties of moderateMessage
\* the last call reached the classifier and got scores back
Classified == lastCall.called /\ ~lastCall.skipped /\ lastCall.outcome.ok

StoredMessages == << NewMessageRow("c2", "A", "hello", FALSE, FALSE),
                    NewMessageRow("c2", "B", "again", TRUE, FALSE) >>

\* the message ids a client may name: the stored ones and one that names no row
NamedIds == 1..(Len(StoredMessages) + 1)

\* the messageIds lists of a message:seen
SeenLists == UNION { [1..n -> NamedIds] : n \in 0..MaxSeenLen }

Range(seq) == { seq[k] : k \in 1..Len(seq) }

\* the push without its includes() test
PushReadByAlways(readBy, userId) == Append(readBy, userId)

\* updateMessageReadBy between its two queries:
\* if (!readBy.includes(userId)) readBy.push(userId)
PushReadBy(readBy, userId) ==
  IF userId \in Range(readBy) THEN readBy ELSE Append(readBy, userId)

\* an append without the test for the id being there
PushDeliveredToAlways(deliveredTo, userId) == Append(deliveredTo, userId)

\* markMessageDelivered: add the user id to delivered_to, once
PushDeliveredTo(deliveredTo, userId) ==
  IF userId \in Range(deliveredTo) THEN deliveredTo ELSE Append(deliveredTo, userId)

\* the rows .eq('chat_id', chatId).eq('user_id', userId) selects
MemberRows(chatId, userId) ==
  { k \in 1..Len(chat_members) :
      chat_members[k].chat_id = chatId /\ chat_members[k].user_id = userId }

\* io.to where the code has socket.to: the sender gets the receipt too
ReceiptRecipientsWithSender(c, chatId) == RoomOf(chatId)

\* socket.to(`chat:${chatId}`).emit(...) of the three receipt handlers
ReceiptRecipients(c, chatId) == OthersInRoom(c, chatId)

MessageReadEvent(h, messageId, userId) ==
  [type |-> "message:read", req |-> h, messageId |-> messageId, userId |-> userId]

MessageDeliveredEvent(h, messageId, userId) ==
  [type |-> "message:delivered", req |-> h, messageId |-> messageId, userId |-> userId]

MessagesSeenEvent(h, messageIds, userId) ==
  [type |-> "messages:seen", req |-> h, messageIds |-> messageIds, userId |-> userId]

\* what the message:seen loop does when updateMessageReadBy throws at one id:
\* the throw leaves the for loop for the catch block, the handler is over
SeenAfterFailure(ids, i) == "failed"

RcptUnchanged == UNCHANGED << aiConfig, apiFailureCount, modCalls, lastCall, rooms,
                              moderation_logs, updated_at, sendReq, sessionVars >>

RcptInOrder(h) ==
  /\ rcpt[h].pc = "idle"
  /\ IF h = 1 THEN TRUE ELSE rcpt[h - 1].pc # "idle"

\* a client emits message:read{chatId, messageId}
ReadStart(h, c, chatId, messageId) ==
  /\ RcptInOrder(h)
  /\ rcpt' = [rcpt EXCEPT ![h] = [pc |-> "fetch", kind |-> "read", conn |-> c,
                                  chatId |-> chatId, ids |-> << messageId >>,
                                  i |-> 1, readBy |-> <<>>]]
  /\ UNCHANGED << inbox, messages, chat_members >>
  /\ RcptUnchanged

\* a client emits message:seen{chatId, messageIds}
SeenStart(h, c, chatId, messageIds) ==
  /\ RcptInOrder(h)
  /\ rcpt' = [rcpt EXCEPT ![h] =
               [pc |-> IF messageIds = <<>> THEN "lastread" ELSE "fetch",
                kind |-> "seen", conn |-> c, chatId |-> chatId, ids |-> messageIds,
                i |-> IF messageIds = <<>> THEN 0 ELSE 1, readBy |-> <<>>]]
  /\ UNCHANGED << inbox, messages, chat_members >>
  /\ RcptUnchanged

\* a client emits message:delivered{chatId, messageId}
DeliveredStart(h, c, chatId, messageId) ==
  /\ RcptInOrder(h)
  /\ rcpt' = [rcpt EXCEPT ![h] = [pc |-> "deliver", kind |-> "delivered", conn |-> c,
                                  chatId |-> chatId, ids |-> << messageId >>,
                                  i |-> 1, readBy |-> <<>>]]
  /\ UNCHANGED << inbox, messages, chat_members >>
  /\ RcptUnchanged

\* updateMessageReadBy, first query: select read_by of the message (.single())
ReadByFetch(h, ok) ==
  /\ rcpt[h].pc = "fetch"
  /\ LET id == rcpt[h].ids[rcpt[h].i]
     IN IF ok /\ id \in 1..Len(messages)
        THEN rcpt' = [rcpt EXCEPT ![h].pc = "update",
                                  ![h].readBy = messages[id].read_by]
        ELSE rcpt' = [rcpt EXCEPT ![h].pc =
                        IF rcpt[h].kind = "seen"
                        THEN SeenAfterFailure(rcpt[h].ids, rcpt[h].i) ELSE "failed"]
  /\ UNCHANGED << inbox, messages, chat_members >>
  /\ RcptUnchanged

\* updateMessageReadBy, second query: update read_by with the array built from
\* the one fetched; then the loop of message:seen goes on to its next id
ReadByUpdate(h, ok) ==
  /\ rcpt[h].pc = "update"
  /\ LET id == rcpt[h].ids[rcpt[h].i]
         readBy == PushReadBy(rcpt[h].readBy, userIdOf(rcpt[h].conn))
     IN IF ok
        THEN /\ messages' = [messages EXCEPT ![id].read_by = readBy]
             /\ rcpt' = [rcpt EXCEPT ![h] =
                   IF rcpt[h].i < Len(rcpt[h].ids)
                   THEN [@ EXCEPT !.pc = "fetch", !.i = @ + 1, !.readBy = <<>>]
                   ELSE [@ EXCEPT !.pc = "lastread", !.readBy = <<>>]]
        ELSE /\ rcpt' = [rcpt EXCEPT ![h].pc =
                          IF rcpt[h].kind = "seen"
                          THEN SeenAfterFailure(rcpt[h].ids, rcpt[h].i) ELSE "failed",
                                     ![h].readBy = <<>>]
             /\ UNCHANGED messages
  /\ UNCHANGED << inbox, chat_members >>
  /\ RcptUnchanged

\* updateLastReadAt (.single(): exactly one membership row must match), then the
\* broadcast of message:read or messages:seen to the others in the room
LastReadUpdate(h, ok) ==
  /\ rcpt[h].pc = "lastread"
  /\ LET userId == userIdOf(rcpt[h].conn)
         rows == MemberRows(rcpt[h].chatId, userId)
     IN IF ok /\ Cardinality(rows) = 1
        THEN /\ chat_members' = [k \in 1..Len(chat_members) |->
                   IF k \in rows
                   THEN [chat_members[k] EXCEPT !.last_read_at = @ + 1]
                   ELSE chat_members[k]]
             /\ inbox' = Emit(ReceiptRecipients(rcpt[h].conn, rcpt[h].chatId),
                   IF rcpt[h].kind = "seen"
                   THEN MessagesSeenEvent(h, rcpt[h].ids, userId)
                   ELSE MessageReadEvent(h, rcpt[h].ids[1], userId))
             /\ rcpt' = [rcpt EXCEPT ![h].pc = "done"]
        ELSE /\ rcpt' = [rcpt EXCEPT ![h].pc = "failed"]
             /\ UNCHANGED << chat_members, inbox >>
  /\ UNCHANGED messages
  /\ RcptUnchanged

\* markMessageDelivered, then the broadcast of message:delivered
DeliveredMark(h, ok) ==
  /\ rcpt[h].pc = "deliver"
  /\ LET id == rcpt[h].ids[1]
         userId == userIdOf(rcpt[h].conn)
     IN IF ok /\ id \in 1..Len(messages)
        THEN /\ messages' = [messages EXCEPT ![id].delivered_to =
                                PushDeliveredTo(@, userId)]
             /\ inbox' = Emit(ReceiptRecipients(rcpt[h].conn, rcpt[h].chatId),
                              MessageDeliveredEvent(h, id, userId))
             /\ rcpt' = [rcpt EXCEPT ![h].pc = "done"]
        ELSE /\ rcpt' = [rcpt EXCEPT ![h].pc = "failed"]
             /\ UNCHANGED << messages, inbox >>
  /\ UNCHANGED chat_members
  /\ RcptUnchanged

InitReceipt ==
  /\ SessionEstablished
  /\ aiConfig = [openai |-> TRUE, huggingface |-> FALSE]
  /\ apiFailureCount = 0
  /\ modCalls = 0
  /\ lastCall = NoCall
  /\ rooms = JoinedRooms
  /\ inbox = [c \in Conns |-> <<>>]
  /\ messages = StoredMessages
  /\ moderation_logs = {}
  /\ updated_at = [ch \in Chats |-> 0]
  /\ sendReq = [r \in 1..MaxSends |-> IdleSend]
  /\ chat_members = InitMembers
  /\ rcpt = [h \in 1..MaxReceipts |-> IdleRcpt]

NextReceipt ==
  \E h \in 1..MaxReceipts :
    \/ \E c \in Conns, chatId \in Chats, id \in NamedIds : ReadStart(h, c, chatId, id)
    \/ \E c \in Conns, chatId \in Chats, ids \in SeenLists : SeenStart(h, c, chatId, ids)
    \/ \E c \in Conns, chatId \in Chats, id \in NamedIds : DeliveredStart(h, c, chatId, id)
    \/ \E ok \in BOOLEAN : ReadByFetch(h, ok)
    \/ \E ok \in BOOLEAN : ReadByUpdate(h, ok)
    \/ \E ok \in BOOLEAN : LastReadUpdate(h, ok)
    \/ \E ok \in BOOLEAN : DeliveredMark(h, ok)

SpecReceipt == InitReceipt /\ [][NextReceipt]_vars

\* ------------------------------------------------------------ properties of the receipts
RcptIds == 1..MaxReceipts

NoDuplicates(seq) == \A j, k \in 1..Len(seq) : seq[j] = seq[k] => j = k

\* C8: for every persisted message, under any interleaving of the message:read,
\* message:seen and message:delivered handlers, read_by and delivered_to only grow
\* (an id once stored stays) and hold no id twice.
C8_SetsOnlyGrow ==
  [][ \A m \in 1..Len(messages) :
        /\ Range(messages[m].read_by) \subseteq Range(messages'[m].read_by)
        /\ Range(messages[m].delivered_to) \subseteq Range(messages'[m].delivered_to)
        /\ NoDuplicates(messages'[m].read_by)
        /\ NoDuplicates(messages'[m].delivered_to) ]_vars

\* a message:seen whose persistence calls all succeeded sent one messages:seen,
\* with its id list and its user, to each other connection of the room; no other
\* connection, the sender's included, holds a messages:seen of it
SeenBroadcastOnce ==
  \A h \in RcptIds :
    rcpt[h].kind = "seen" =>
      \A c \in Conns :
        LET got == EventsOf(c, "messages:seen", h)
        IN IF rcpt[h].pc = "done" /\ c \in OthersInRoom(rcpt[h].conn, rcpt[h].chatId)
           THEN /\ Cardinality(got) = 1
                /\ \A k \in got : /\ inbox[c][k].messageIds = rcpt[h].ids
                                   /\ inbox[c][k].userId = userIdOf(rcpt[h].conn)
           ELSE got = {}

\* the update of a message:seen that finds its user already in the stored read_by
\* (the array it fetched being the stored one) leaves table messages as it is
SeenRepeatIsNoOp ==
  \A h \in RcptIds :
    ( /\ rcpt[h].kind = "seen"
      /\ rcpt[h].pc = "update"
      /\ rcpt'[h].pc # "update"
      /\ rcpt[h].readBy = messages[rcpt[h].ids[rcpt[h].i]].read_by
      /\ userIdOf(rcpt[h].conn) \in Range(rcpt[h].readBy) )
    => messages' = messages

C10_SeenContinuesAfterFailure ==
  \A h \in RcptIds :
    rcpt[h].kind = "seen" /\ rcpt[h].pc \in {"done", "failed"} =>
      rcpt[h].i = Len(rcpt[h].ids)

\* ------------------------------------------------------------ order of handlers
\* the requests whose handler has started and not yet ended: it waits on an await
SendInProgress(c) ==
  { r \in SendIds : sendReq[r].conn = c /\ sendReq[r].pc \notin Terminal \cup {"idle"} }

\* C18: two message:send from one connection to the same chat, both delivered, are
\* persisted in the order received (the earlier one gets the smaller row id) and
\* their message:new events reach every connection in that order
C18_SameConnectionOrder ==
  \A r \in SendIds, q \in SendIds :
    ( /\ r < q
      /\ sendReq[r].pc = "delivered" /\ sendReq[q].pc = "delivered"
      /\ sendReq[r].conn = sendReq[q].conn
      /\ sendReq[r].chatId = sendReq[q].chatId )
    => /\ sendReq[r].messageId < sendReq[q].messageId
       /\ \A c \in Conns : \A i \in EventsOf(c, "message:new", r),
                                j \in EventsOf(c, "message:new", q) : i < j

\* C19: at most one inbound-event handler of a connection is in progress at any time
C19_OneHandlerPerConnection ==
  \A c \in Conns : Cardinality(SendInProgress(c)) <= 1

\* ------------------------------------------------------------ connections
\* socket.handshake.auth.token: absent, one the identity provider rejects, a valid one
Tokens == {"none", "bad", "good"}

\* what supabase.auth.getUser(token) does: resolves with the user, resolves with an
\* error or no user, or throws; only a valid token can resolve with the user
VerifyOutcomes(token) ==
  IF token = "good" THEN {"user", "error", "throw"} ELSE {"error", "throw"}

\* a middleware that lets every verified-or-not handshake through
AuthAcceptsAlways(outcome) == TRUE

\* the middleware after its await: next() without an error only when getUser gave a user
AuthAccepts(outcome) == outcome = "user"

\* Map.set without the replacement of the key's entry
MapSetKeepOld(m, k, v) == m \cup { << k, v >> }

\* onlineUsers.set(userId, socket.id)
MapSet(m, k, v) == { en \in m : en[1] # k } \cup { << k, v >> }

\* onlineUsers.delete(userId)
MapDelete(m, k) == { en \in m : en[1] # k }

\* onlineUsers.has(userId)
MapHas(m, k) == \E en \in m : en[1] = k

\* onlineUsers.get(userId), for a user that has an entry
MapGet(m, k) == (CHOOSE en \in m : en[1] = k)[2]

\* the socket got past the middleware: the connection handler was called for it
Entered(s) == s.state \in {"setupStatus", "setupRooms", "active"}

\* the sockets of the namespace, which io.emit reaches
Connected == { c \in Conns : Entered(sock[c]) /\ sock[c].open }

\* the socket's listeners are registered and events still arrive on it
Listening(c) == sock[c].state = "active" /\ sock[c].open

UserStatus(c, userId, isOnline) ==
  [type |-> "user:status", req |-> c, userId |-> userId, online |-> isOnline]

\* the typing:start requests of the chat that arrived on c so far
TypingStartsReceived(c, chatId) ==
  { h \in DOMAIN typReq : /\ typReq[h].pc # "idle"
                           /\ typReq[h].conn = c /\ typReq[h].chatId = chatId }

\* the payload of typing:stop; after records the typing:start requests of the same
\* chat that the connection had sent before it
TypingStop(c, chatId) ==
  [type |-> "typing:stop", req |-> c, chatId |-> chatId, userId |-> userIdOf(c),
   after |-> TypingStartsReceived(c, chatId)]

\* getUserChats(userId): the chats of the user's membership rows
UserChats(userId) ==
  { chat_members[k].chat_id : k \in { j \in DOMAIN chat_members :
                                          chat_members[j].user_id = userId } }

connUnchanged ==
  UNCHANGED << aiConfig, apiFailureCount, modCalls, lastCall, messages, moderation_logs,
               updated_at, sendReq, chat_members, rcpt, chats, chatReq, sumReq, typReq,
               qryReq, client >>

\* a client opens a socket; the middleware rejects a handshake without a token at
\* once and otherwise awaits supabase.auth.getUser
Handshake(c, token) ==
  /\ sock[c].state = "new"
  /\ sock' = [sock EXCEPT ![c] =
       IF token = "none"
       THEN [@ EXCEPT !.state = "rejected", !.token = token]
       ELSE [@ EXCEPT !.state = "auth", !.token = token, !.open = TRUE]]
  /\ UNCHANGED << rooms, inbox, online, onlineUsers >>
  /\ connUnchanged

\* getUser settles; next() with an error closes the socket, next() without one calls
\* the connection handler, which runs up to its first await
AuthVerified(c, outcome) ==
  /\ sock[c].state = "auth"
  /\ outcome \in VerifyOutcomes(sock[c].token)
  /\ IF AuthAccepts(outcome)
     THEN /\ sock' = [sock EXCEPT ![c].state = "setupStatus", ![c].verified = outcome]
          /\ onlineUsers' = MapSet(onlineUsers, userIdOf(c), c)
     ELSE /\ sock' = [sock EXCEPT ![c].state = "rejected", ![c].open = FALSE,
                                  ![c].verified = outcome]
          /\ UNCHANGED onlineUsers
  /\ UNCHANGED << rooms, inbox, online >>
  /\ connUnchanged

\* updateUserOnlineStatus(userId, true) settles; the broadcast follows only a success
SetupStatus(c, ok) ==
  /\ sock[c].state = "setupStatus"
  /\ IF ok
     THEN /\ online' = [online EXCEPT ![userIdOf(c)] = TRUE]
          /\ inbox' = Emit(Connected, UserStatus(c, userIdOf(c), TRUE))
     ELSE UNCHANGED << online, inbox >>
  /\ sock' = [sock EXCEPT ![c].state = "setupRooms",
                          ![c].setup = IF ok THEN "status" ELSE "failed"]
  /\ UNCHANGED << rooms, onlineUsers >>
  /\ connUnchanged

\* getUserChats settles: the socket joins its rooms (a socket closed meanwhile is in
\* no room any more), then every listener is registered, 'disconnect' last
SetupRooms(c, ok) ==
  /\ sock[c].state = "setupRooms"
  /\ rooms' = [rooms EXCEPT ![c] = IF ok /\ sock[c].open THEN UserChats(userIdOf(c)) ELSE @]
  /\ sock' = [sock EXCEPT ![c].state = "active",
                          ![c].setup = IF ok /\ @ = "status" THEN "ok" ELSE "failed"]
  /\ UNCHANGED << inbox, online, onlineUsers >>
  /\ connUnchanged

\* the number of typing:stop events emitted so far
TypingCount ==
  Cardinality({ << c, k >> \in Conns \X (1..8) :
                  k <= Len(inbox[c]) /\ inbox[c][k].type = "typing:stop" })

\* a client emits typing:stop{chatId}: the listener relays it to the others of the room
TypingStopped(c, chatId) ==
  /\ Listening(c)
  /\ TypingCount < MaxTyping
  /\ inbox' = Emit(OthersInRoom(c, chatId), TypingStop(c, chatId))
  /\ UNCHANGED << rooms, online, onlineUsers, sock >>
  /\ connUnchanged

\* the transport of a connected socket closes: the socket leaves its rooms and
\* 'disconnect' is emitted on it, which runs the listener only if it is registered
\* by then; the listener runs up to its await
Close(c) ==
  /\ Entered(sock[c])
  /\ sock[c].open
  /\ rooms' = [rooms EXCEPT ![c] = {}]
  /\ IF sock[c].state = "active"
     THEN /\ onlineUsers' = MapDelete(onlineUsers, userIdOf(c))
          /\ sock' = [sock EXCEPT ![c].open = FALSE, ![c].disc = "pending"]
     ELSE /\ sock' = [sock EXCEPT ![c].open = FALSE, ![c].disc = "missed"]
          /\ UNCHANGED onlineUsers
  /\ UNCHANGED << inbox, online >>
  /\ connUnchanged

\* updateUserOnlineStatus(userId, false) settles in the disconnect listener
DisconnectStatus(c, ok) ==
  /\ sock[c].disc = "pending"
  /\ IF ok
     THEN /\ online' = [online EXCEPT ![userIdOf(c)] = FALSE]
          /\ inbox' = Emit(Connected, UserStatus(c, userIdOf(c), FALSE))
          /\ sock' = [sock EXCEPT ![c].disc = "done"]
     ELSE /\ sock' = [sock EXCEPT ![c].disc = "failed"]
          /\ UNCHANGED << online, inbox >>
  /\ UNCHANGED << rooms, onlineUsers >>
  /\ connUnchanged

\* the server has started: nobody is connected, the stored chats are there
InitConn ==
  /\ aiConfig = [openai |-> TRUE, huggingface |-> FALSE]
  /\ apiFailureCount = 0
  /\ modCalls = 0
  /\ lastCall = NoCall
  /\ rooms = [c \in Conns |-> {}]
  /\ inbox = [c \in Conns |-> <<>>]
  /\ messages = <<>>
  /\ moderation_logs = {}
  /\ updated_at = [ch \in Chats |-> 0]
  /\ sendReq = [r \in 1..MaxSends |-> IdleSend]
  /\ chat_members = InitMembers
  /\ rcpt = [h \in 1..MaxReceipts |-> IdleRcpt]
  /\ chats = InitChats
  /\ online = [u \in Users |-> FALSE]
  /\ onlineUsers = {}
  /\ sock = [c \in Conns |-> NewSocket]
  /\ chatReq = [q \in 1..MaxCreates |-> IdleChat]
  /\ sumReq = [q \in 1..MaxSummaries |-> IdleSum]
  /\ typReq = [h \in 1..MaxTypingStarts |-> IdleTyp]
  /\ qryReq = [f \in 1..MaxQueries |-> IdleQry]
  /\ client = NewClient

NextConn ==
  \E c \in Conns :
    \/ \E token \in Tokens : Handshake(c, token)
    \/ \E outcome \in {"user", "error", "throw"} : AuthVerified(c, outcome)
    \/ \E ok \in BOOLEAN : SetupStatus(c, ok)
    \/ \E ok \in BOOLEAN : SetupRooms(c, ok)
    \/ \E chatId \in Chats : TypingStopped(c, chatId)
    \/ Close(c)
    \/ \E ok \in BOOLEAN : DisconnectStatus(c, ok)

SpecConn == InitConn /\ [][NextConn]_vars

\* ------------------------------------------------------------ properties of connections
\* the events in d's inbox that socket c's handlers caused
CausedBy(c, d) ==
  { k \in DOMAIN inbox[d] : inbox[d][k].req = c }

\* the handshake of c had no token, or getUser gave an error, no user, or threw
NotAuthenticated(c) ==
  \/ sock[c].state = "rejected" /\ sock[c].token = "none"
  \/ sock[c].verified \in {"error", "throw"}

\* no trace of socket c in the server: not in the registry, in no room, nothing
\* emitted to it, nothing emitted on its behalf
NoTraceOf(c) ==
  /\ \A u \in Users : << u, c >> \notin onlineUsers
  /\ rooms[c] = {}
  /\ inbox[c] = <<>>
  /\ \A d \in Conns : CausedBy(c, d) = {}
  /\ ~Entered(sock[c]) /\ ~Listening(c)

\* C14: a connection without a token, with a rejected token, or whose verification
\* throws never reaches the connection handler: it stays rejected for good, is never
\* in the registry, joins no room, has no inbound event handled and gets no event
C14_RejectedNeverEnters ==
  [][ \A c \in Conns :
        /\ NotAuthenticated(c)' => NoTraceOf(c)'
        /\ NotAuthenticated(c) => sock'[c] = sock[c] ]_vars

C14_Witness ==
  /\ sock["sA2"].state = "rejected" /\ sock["sA2"].token = "none"
  /\ sock["sB"].state = "rejected" /\ sock["sB"].token = "good"
  /\ sock["sB"].verified = "throw"
  /\ Listening("sA") /\ Len(inbox["sA"]) > 0

\* the user:status{online: false} events in d's inbox that c's disconnect caused
OfflineEvents(c, d) ==
  { k \in CausedBy(c, d) : inbox[d][k].type = "user:status" /\ ~inbox[d][k].online }

\* C15: each disconnect of an authenticated connection, once handled, has persisted
\* online=false for its user and has broadcast user:status{userId, online:false}
\* exactly once
C15_DisconnectPersistsAndBroadcasts ==
  \A c \in Conns :
    (Entered(sock[c]) /\ ~sock[c].open /\ sock[c].disc # "pending")
    => /\ sock[c].disc = "done"
       /\ \A d \in Conns : Cardinality(OfflineEvents(c, d)) <= 1

OneEntryPerUser ==
  \A e1 \in onlineUsers, e2 \in onlineUsers : e1[1] = e2[1] => e1 = e2

\* C16: the registry holds at most one entry per user, and when a socket of a user
\* gets past authentication the user's entry maps to that socket
C16_RegistryOneEntryPerUser ==
  [][ /\ OneEntryPerUser'
      /\ \A c \in Conns : (~Entered(sock[c]) /\ Entered(sock[c])')
                            => << userIdOf(c), c >> \in onlineUsers' ]_vars

\* both sockets of A are connected, nothing was deleted, the entry is the later one
C16_Witness ==
  /\ Entered(sock["sA"]) /\ sock["sA"].open
  /\ Entered(sock["sA2"]) /\ sock["sA2"].open
  /\ onlineUsers = { << "A", "sA2" >> }

\* C17: online=false is persisted and broadcast only by disconnect processing, and
\* every close of an authenticated connection, at any moment after authentication,
\* triggers it: the registry entry is removed and online=false is persisted
C17_EveryCloseRunsDisconnect ==
  /\ \A c \in Conns, d \in Conns : OfflineEvents(c, d) # {} => sock[c].disc = "done"
  /\ \A c \in Conns :
       (Entered(sock[c]) /\ ~sock[c].open)
       => /\ sock[c].disc \in {"pending", "done"}
          /\ << userIdOf(c), c >> \notin onlineUsers

\* ------------------------------------------------------------ chat:create
\* the ids the store gives to the chats it inserts, in order
NewChatIds == << "c1", "c2", "c3", "c4", "c5", "c6" >>

\* the memberIds of the requests: none, the peer, the requester itself, a repeated
\* id, several ids ("C" is a user without a connection)
MemberLists == { <<>>, << "A" >>, << "B" >>, << "B", "B" >>, << "A", "B" >>, << "B", "C" >> }

\* the row with that id in table chats
ChatRow(id) == chats[CHOOSE k \in DOMAIN chats : chats[k].id = id]

\* memberIds.length of that select
MemberCount(id) ==
  Cardinality({ k \in DOMAIN chat_members : chat_members[k].chat_id = id })

\* the users of the chat's membership rows (getChatMembers)
MemberSet(id) ==
  { chat_members[k].user_id : k \in { j \in DOMAIN chat_members :
                                          chat_members[j].chat_id = id } }

\* a lookup that never finds the chat
DirectChatMatchesNever(id, user2Id) == FALSE

\* the test of getOrCreateDirectChat on one chat of user1
DirectChatMatches(id, user2Id) ==
  /\ ~ChatRow(id).is_group
  /\ user2Id \in MemberSet(id) /\ MemberCount(id) = 2

\* a search that finds nothing: every request creates
FindDirectChatNone(user1Id, user2Id) == "none"

\* getOrCreateDirectChat's search: the first membership row of user1, in row order,
\* whose chat passes the test; "none" when there is none
FindDirectChat(user1Id, user2Id) ==
  LET ks == { k \in DOMAIN chat_members :
                /\ chat_members[k].user_id = user1Id
                /\ DirectChatMatches(chat_members[k].chat_id, user2Id) }
  IN IF ks = {} THEN "none"
     ELSE chat_members[CHOOSE k \in ks : \A j \in ks : k <= j].chat_id

\* a table without the uniqueness of (chat_id, user_id)
MemberInsertUnchecked(chatId, userId) == TRUE

\* the store keeps (chat_id, user_id) unique: an insert of a pair that is there fails
MemberInsertAllowed(chatId, userId) ==
  ~\E k \in DOMAIN chat_members :
      chat_members[k].chat_id = chatId /\ chat_members[k].user_id = userId

\* the row addChatMember inserts
NewMemberRow(chatId, userId) == [chat_id |-> chatId, user_id |-> userId, last_read_at |-> 0]

ChatCreated(q, id) ==
  [type |-> "chat:created", req |-> q, id |-> id, is_group |-> ChatRow(id).is_group,
   members |-> MemberSet(id)]

ChatNew(q, id) ==
  [type |-> "chat:new", req |-> q, id |-> id, is_group |-> ChatRow(id).is_group,
   members |-> MemberSet(id)]

ChatError(q) == [type |-> "chat:error", req |-> q, error |-> "Failed to create chat"]

\* the sockets the registry has for these users
SocketsOf(userIds) ==
  { MapGet(onlineUsers, u) : u \in { v \in userIds : MapHas(onlineUsers, v) } }

chatUnchanged ==
  UNCHANGED << aiConfig, apiFailureCount, modCalls, lastCall, messages, moderation_logs,
               updated_at, sendReq, rcpt, online, onlineUsers, sock, sumReq, typReq,
               qryReq, client >>

\* a catch block that only logs
ChatFailsSilently(q, step) ==
  /\ inbox' = inbox
  /\ chatReq' = [chatReq EXCEPT ![q].pc = "error", ![q].failed = step]

\* the catch block of the handler: chat:error to the sender, handler over
ChatFails(q, step) ==
  /\ inbox' = Emit({chatReq[q].conn}, ChatError(q))
  /\ chatReq' = [chatReq EXCEPT ![q].pc = "error", ![q].failed = step]

\* a client emits chat:create{isGroup, memberIds}; the handler takes the direct path
\* or the group path and runs up to its first await
ChatCreateStart(q, c, isGroup, memberIds) ==
  /\ Listening(c)
  /\ chatReq[q].pc = "idle"
  /\ IF q = 1 THEN TRUE ELSE chatReq[q - 1].pc # "idle"
  /\ LET direct == ~isGroup /\ Len(memberIds) = 1
     IN chatReq' = [chatReq EXCEPT ![q] =
          [@ EXCEPT !.pc = IF direct THEN "lookup" ELSE "create", !.conn = c,
                    !.isGroup = isGroup, !.memberIds = memberIds, !.direct = direct]]
  /\ UNCHANGED << rooms, inbox, chats, chat_members >>
  /\ chatUnchanged

\* another direct request for the same pair has found no chat and has not yet
\* written both memberships
OtherCreating(q) ==
  \E p \in DOMAIN chatReq :
    /\ p # q /\ chatReq[p].direct
    /\ chatReq[p].pc \in {"create", "addCreator", "addMember"}
    /\ { userIdOf(chatReq[p].conn), chatReq[p].memberIds[1] }
         = { userIdOf(chatReq[q].conn), chatReq[q].memberIds[1] }

\* getOrCreateDirectChat's search settles (its reads taken together): the chat found
\* is returned and the socket joins its room, or the creation starts
ChatLookup(q, ok) ==
  /\ chatReq[q].pc = "lookup"
  /\ LET found == FindDirectChat(userIdOf(chatReq[q].conn), chatReq[q].memberIds[1])
     IN IF ~ok
        THEN /\ ChatFails(q, "lookup")
             /\ UNCHANGED rooms
        ELSE IF found # "none"
        THEN /\ chatReq' = [chatReq EXCEPT ![q].pc = "members", ![q].chatId = found,
                                           ![q].reused = TRUE]
             /\ rooms' = [rooms EXCEPT ![chatReq[q].conn] = @ \cup {found}]
             /\ UNCHANGED inbox
        ELSE /\ chatReq' = [chatReq EXCEPT ![q].pc = "create",
                                           ![q].overlap = OtherCreating(q)]
             /\ UNCHANGED << rooms, inbox >>
  /\ UNCHANGED << chats, chat_members >>
  /\ chatUnchanged

\* createChat(isGroup, userId): the direct path always inserts is_group = false
ChatInsert(q, ok) ==
  /\ chatReq[q].pc = "create"
  /\ IF ok
     THEN LET id == NewChatIds[Len(chats) + 1]
          IN /\ chats' = Append(chats, [id |-> id, is_group |-> chatReq[q].isGroup,
                                        created_by |-> userIdOf(chatReq[q].conn)])
             /\ chatReq' = [chatReq EXCEPT ![q].pc = "addCreator", ![q].chatId = id]
             /\ UNCHANGED inbox
     ELSE /\ ChatFails(q, "create")
          /\ UNCHANGED chats
  /\ UNCHANGED << rooms, chat_members >>
  /\ chatUnchanged

\* addChatMember(chat.id, userId) for the creator
ChatAddCreator(q, ok) ==
  /\ chatReq[q].pc = "addCreator"
  /\ LET u == userIdOf(chatReq[q].conn)
     IN IF ok /\ MemberInsertAllowed(chatReq[q].chatId, u)
        THEN /\ chat_members' = Append(chat_members, NewMemberRow(chatReq[q].chatId, u))
             /\ chatReq' = [chatReq EXCEPT
                   ![q].pc = IF chatReq[q].memberIds = <<>> THEN "members" ELSE "addMember",
                   ![q].i = 1]
             /\ UNCHANGED inbox
        ELSE /\ ChatFails(q, IF ok THEN "duplicate" ELSE "addCreator")
             /\ UNCHANGED chat_members
  /\ UNCHANGED << rooms, chats >>
  /\ chatUnchanged

\* addChatMember(chat.id, memberId) for the i-th of memberIds; after the last one the
\* direct path returns the chat and the socket joins its room
ChatAddMember(q, ok) ==
  /\ chatReq[q].pc = "addMember"
  /\ LET u == chatReq[q].memberIds[chatReq[q].i]
         last == chatReq[q].i = Len(chatReq[q].memberIds)
     IN IF ok /\ MemberInsertAllowed(chatReq[q].chatId, u)
        THEN /\ chat_members' = Append(chat_members, NewMemberRow(chatReq[q].chatId, u))
             /\ chatReq' = [chatReq EXCEPT ![q].pc = IF last THEN "members" ELSE "addMember",
                                           ![q].i = IF last THEN @ ELSE @ + 1]
             /\ rooms' = [rooms EXCEPT ![chatReq[q].conn] =
                             IF last /\ chatReq[q].direct THEN @ \cup {chatReq[q].chatId}
                             ELSE @]
             /\ UNCHANGED inbox
        ELSE /\ ChatFails(q, IF ok THEN "duplicate" ELSE "addMember")
             /\ UNCHANGED << chat_members, rooms >>
  /\ UNCHANGED chats
  /\ chatUnchanged

\* the inboxes box after one emit of ev to the connections in targets
EmitOn(box, targets, ev) ==
  [c \in Conns |-> IF c \in targets THEN Append(box[c], ev) ELSE box[c]]

\* getChatMembers settles.  Direct path: chat:created to the sender, then chat:new to
\* the socket the registry has for the target, which is joined to the room.  Group
\* path: the sender's socket and the registry's sockets of memberIds join the room,
\* then chat:new goes to the room
ChatGetMembers(q, ok) ==
  /\ chatReq[q].pc = "members"
  /\ LET c == chatReq[q].conn
         id == chatReq[q].chatId
         others == SocketsOf(Range(chatReq[q].memberIds))
     IN IF ~ok
        THEN /\ ChatFails(q, "members")
             /\ UNCHANGED rooms
        ELSE /\ chatReq' = [chatReq EXCEPT ![q].pc = "done"]
             /\ rooms' = [d \in Conns |->
                            IF d \in others \/ (d = c /\ ~chatReq[q].direct)
                            THEN rooms[d] \cup {id} ELSE rooms[d]]
             /\ inbox' = IF chatReq[q].direct
                         THEN EmitOn(Emit({c}, ChatCreated(q, id)), others, ChatNew(q, id))
                         ELSE Emit(RoomOf(id) \cup others \cup {c}, ChatNew(q, id))
  /\ UNCHANGED << chats, chat_members >>
  /\ chatUnchanged

\* the store has no chat yet and no handler has run
ChatStoreEmpty ==
  /\ aiConfig = [openai |-> TRUE, huggingface |-> FALSE]
  /\ apiFailureCount = 0
  /\ modCalls = 0
  /\ lastCall = NoCall
  /\ rooms = [c \in Conns |-> {}]
  /\ inbox = [c \in Conns |-> <<>>]
  /\ messages = <<>>
  /\ moderation_logs = {}
  /\ updated_at = [ch \in Chats |-> 0]
  /\ sendReq = [r \in 1..MaxSends |-> IdleSend]
  /\ chat_members = <<>>
  /\ rcpt = [h \in 1..MaxReceipts |-> IdleRcpt]
  /\ chats = <<>>
  /\ chatReq = [q \in 1..MaxCreates |-> IdleChat]
  /\ sumReq = [q \in 1..MaxSummaries |-> IdleSum]
  /\ typReq = [h \in 1..MaxTypingStarts |-> IdleTyp]
  /\ qryReq = [f \in 1..MaxQueries |-> IdleQry]
  /\ client = NewClient

\* the three sockets are connected and set up, the store has no chat yet
InitChat ==
  /\ ChatStoreEmpty
  /\ online = [u \in Users |-> TRUE]
  /\ onlineUsers = EstablishedUsers
  /\ sock = [c \in Conns |-> ActiveSocket]

\* a socket whose disconnect listener has run to its end
ClosedSocket == [ActiveSocket EXCEPT !.open = FALSE, !.disc = "done"]

\* ... or sA, sB and sA2 connected and sA2 has closed since: its disconnect listener
\* deleted A's entry and persisted online = false, while sA is still open
InitDirect ==
  /\ ChatStoreEmpty
  /\ \/ /\ online = [u \in Users |-> TRUE]
        /\ onlineUsers = EstablishedUsers
        /\ sock = [c \in Conns |-> ActiveSocket]
     \/ /\ online = [u \in Users |-> u = "B"]
        /\ onlineUsers = MapDelete(EstablishedUsers, "A")
        /\ sock = [c \in Conns |-> IF c = "sA2" THEN ClosedSocket ELSE ActiveSocket]

\* (SpecChat starts MaxOverlap requests, which may overlap in any way)
\* the steps of the chat:create handlers after their start
ChatSteps ==
  \E q \in 1..MaxCreates, ok \in BOOLEAN :
    \/ ChatLookup(q, ok)
    \/ ChatInsert(q, ok)
    \/ ChatAddCreator(q, ok)
    \/ ChatAddMember(q, ok)
    \/ ChatGetMembers(q, ok)

NextChat ==
  \/ \E q \in 1..MaxOverlap, c \in Conns, isGroup \in BOOLEAN, memberIds \in MemberLists :
       ChatCreateStart(q, c, isGroup, memberIds)
  \/ ChatSteps

SpecChat == InitChat /\ [][NextChat]_vars

\* no chat:create handler is between its start and its end
NoChatInProgress == \A q \in 1..MaxCreates : chatReq[q].pc \in {"idle", "done", "error"}

\* a direct request (isGroup = false, one target) made while no other chat:create runs
DirectCreateStart(q, c, target) ==
  /\ NoChatInProgress
  /\ ChatCreateStart(q, c, FALSE, << target >>)

NextDirect ==
  \/ \E q \in 1..MaxCreates, c \in Conns, target \in Users : DirectCreateStart(q, c, target)
  \/ ChatSteps

\* direct chat:create requests only, one at a time
SpecDirect == InitDirect /\ [][NextDirect]_vars

\* ------------------------------------------------------------ properties of chat:create
\* the request is a direct one between A and B, from either side
BetweenAB(q) ==
  /\ chatReq[q].direct
  /\ { userIdOf(chatReq[q].conn), chatReq[q].memberIds[1] } = {"A", "B"}

\* the chat ids that chat:created replies to such requests carried
RepliedIds ==
  UNION { { inbox[c][k].id : k \in { j \in DOMAIN inbox[c] :
                                        /\ inbox[c][j].type = "chat:created"
                                        /\ BetweenAB(inbox[c][j].req) } } : c \in Conns }

\* the non-group chats whose membership is exactly {A, B}
DirectChatsAB ==
  { k \in DOMAIN chats : /\ ~chats[k].is_group
                          /\ MemberSet(chats[k].id) = {"A", "B"}
                          /\ MemberCount(chats[k].id) = 2 }

\* C11: with one chat:create at a time, every sequence of direct requests between A
\* and B, from either side, is answered with the same chat id each time, and at most
\* one non-group chat with membership {A, B} exists
C11_DirectChatReused ==
  /\ Cardinality(RepliedIds) <= 1
  /\ Cardinality(DirectChatsAB) <= 1

\* a first request left a chat with one member behind, B then created the chat and
\* A's request got the same chat
C11_Witness ==
  /\ chatReq[1].pc = "error" /\ chatReq[1].failed = "addMember" /\ BetweenAB(1)
  /\ chatReq[2].pc = "done" /\ BetweenAB(2) /\ ~chatReq[2].reused
  /\ userIdOf(chatReq[2].conn) = "B"
  /\ chatReq[3].pc = "done" /\ BetweenAB(3) /\ chatReq[3].reused
  /\ userIdOf(chatReq[3].conn) = "A"
  /\ chatReq[3].chatId = chatReq[2].chatId

\* C12: once the chat:create handlers have ended, every chat with is_group = false
\* has exactly two distinct members, whatever isGroup and memberIds the requests had
\* and whichever persistence calls failed
C12_DirectChatsHaveTwoMembers ==
  NoChatInProgress
  => \A k \in DOMAIN chats :
       ~chats[k].is_group => /\ Cardinality(MemberSet(chats[k].id)) = 2
                             /\ MemberCount(chats[k].id) = 2

OpenAiSummaryOutcomes == {"ok", "empty", "failed"}

\* what hf.textGeneration does: a usable text, a text too short or repeating the
\* input, or a throw
HfOutcomes == {"ok", "poor", "failed"}

\* the ids of the chat's messages the user has not sent and not read
UnreadMessages(chatId, userId) ==
  { k \in DOMAIN messages : /\ messages[k].chat_id = chatId
                             /\ messages[k].sender_id # userId
                             /\ userId \notin Range(messages[k].read_by) }

\* generateChatSummary before its first await: it returns null, calls OpenAI, or
\* goes to Hugging Face
SummaryRoute(cfg, count) ==
  IF ~AI_ENABLED(cfg) \/ count >= maxFailures THEN "null"
  ELSE IF OPENAI_ENABLED(cfg) THEN "openai" ELSE "hf"

\* response.choices[0]?.message?.content || 'Unable to generate summary.'
OpenAiSummary(outcome) ==
  IF outcome = "ok" THEN "completion" ELSE "Unable to generate summary."

\* a Hugging Face service that gives no summary when its call fails
HfSummaryFailClosed(outcome) ==
  IF outcome = "ok" THEN "generated" ELSE "null"

\* HuggingFaceService.generateChatSummary with its API key set: the generated text,
\* or generateSimpleSummary(messages) when the text is poor or the call throws
HfSummary(outcome) ==
  IF outcome = "ok" THEN "generated" ELSE "simple"

ChatSummary(q, chatId, summary) ==
  [type |-> "chat:summary", req |-> q, chatId |-> chatId, summary |-> summary]

\* both texts of chat:summary:error, by where the handler gave up
ChatSummaryError(q, thrown) ==
  [type |-> "chat:summary:error", req |-> q,
   error |-> IF thrown THEN "Failed to generate summary. Please try again later."
             ELSE "Unable to generate summary. Please try again."]

sumUnchanged ==
  UNCHANGED << aiConfig, modCalls, lastCall, rooms, messages, moderation_logs,
               updated_at, sendReq, chat_members, rcpt, chats, online, onlineUsers,
               sock, chatReq, typReq, qryReq, client >>

\* the handler once it has its messages: generateChatSummary up to its first await;
\* a null at once is answered with chat:summary:error
SumGenerate(q, how) ==
  LET route == SummaryRoute(aiConfig, apiFailureCount)
  IN IF route = "null"
     THEN /\ inbox' = Emit({sumReq[q].conn}, ChatSummaryError(q, FALSE))
          /\ sumReq' = [sumReq EXCEPT ![q].pc = "error", ![q].fetched = how,
                                      ![q].failed = "null"]
     ELSE /\ sumReq' = [sumReq EXCEPT ![q].pc = route, ![q].fetched = how]
          /\ UNCHANGED inbox

\* the catch block of the handler: chat:summary:error to the sender, handler over
SumFails(q, step) ==
  /\ inbox' = Emit({sumReq[q].conn}, ChatSummaryError(q, TRUE))
  /\ sumReq' = [sumReq EXCEPT ![q].pc = "error", ![q].failed = step]

\* a client emits chat:summary{chatId}; the handler awaits getUnreadMessages
SumStart(q, c, chatId) ==
  /\ sumReq[q].pc = "idle"
  /\ IF q = 1 THEN TRUE ELSE sumReq[q - 1].pc # "idle"
  /\ sumReq' = [sumReq EXCEPT ![q] = [@ EXCEPT !.pc = "unread", !.conn = c,
                                                !.chatId = chatId]]
  /\ UNCHANGED << inbox, apiFailureCount >>
  /\ sumUnchanged

\* getUnreadMessages settles: with unread messages the handler goes on to
\* generateChatSummary, with none it awaits getChatMessages(chatId, 50)
SumUnread(q, ok) ==
  /\ sumReq[q].pc = "unread"
  /\ IF ~ok
     THEN SumFails(q, "unread")
     ELSE IF UnreadMessages(sumReq[q].chatId, userIdOf(sumReq[q].conn)) = {}
     THEN /\ sumReq' = [sumReq EXCEPT ![q].pc = "recent"]
          /\ UNCHANGED inbox
     ELSE SumGenerate(q, "unread")
  /\ UNCHANGED apiFailureCount
  /\ sumUnchanged

\* getChatMessages settles
SumRecent(q, ok) ==
  /\ sumReq[q].pc = "recent"
  /\ IF ok THEN SumGenerate(q, "recent") ELSE SumFails(q, "recent")
  /\ UNCHANGED apiFailureCount
  /\ sumUnchanged

\* openai.chat.completions.create settles: a summary, or the count goes up and the
\* call falls through to Hugging Face when that is configured
SumOpenAi(q, outcome) ==
  /\ sumReq[q].pc = "openai"
  /\ IF outcome # "failed"
     THEN /\ apiFailureCount' = 0
          /\ inbox' = Emit({sumReq[q].conn},
                            ChatSummary(q, sumReq[q].chatId, OpenAiSummary(outcome)))
          /\ sumReq' = [sumReq EXCEPT ![q].pc = "done", ![q].openai = outcome]
     ELSE /\ apiFailureCount' = apiFailureCount + 1
          /\ IF HUGGINGFACE_ENABLED(aiConfig)
             THEN /\ sumReq' = [sumReq EXCEPT ![q].pc = "hf", ![q].openai = outcome]
                  /\ UNCHANGED inbox
             ELSE /\ inbox' = Emit({sumReq[q].conn}, ChatSummaryError(q, FALSE))
                  /\ sumReq' = [sumReq EXCEPT ![q].pc = "error", ![q].openai = outcome,
                                              ![q].failed = "null"]
  /\ sumUnchanged

\* huggingFaceService.generateChatSummary settles (it catches its own errors)
SumHuggingFace(q, outcome) ==
  /\ sumReq[q].pc = "hf"
  /\ LET summary == HfSummary(outcome)
     IN IF summary # "null"
        THEN /\ apiFailureCount' = 0
             /\ inbox' = Emit({sumReq[q].conn}, ChatSummary(q, sumReq[q].chatId, summary))
             /\ sumReq' = [sumReq EXCEPT ![q].pc = "done", ![q].hf = outcome]
        ELSE /\ inbox' = Emit({sumReq[q].conn}, ChatSummaryError(q, FALSE))
             /\ sumReq' = [sumReq EXCEPT ![q].pc = "error", ![q].hf = outcome,
                                         ![q].failed = "null"]
             /\ UNCHANGED apiFailureCount
  /\ sumUnchanged

\* the sockets are set up, two messages are stored, and the failure count is what
\* earlier moderation calls left: none, one short of the limit, or the limit
InitSummary ==
  /\ SessionEstablished
  /\ aiConfig \in AiConfigs
  /\ apiFailureCount \in {0, maxFailures - 1, maxFailures}
  /\ modCalls = 0
  /\ lastCall = NoCall
  /\ rooms = JoinedRooms
  /\ inbox = [c \in Conns |-> <<>>]
  /\ messages = StoredMessages
  /\ moderation_logs = {}
  /\ updated_at = [ch \in Chats |-> 0]
  /\ sendReq = [r \in 1..MaxSends |-> IdleSend]
  /\ chat_members = InitMembers
  /\ rcpt = [h \in 1..MaxReceipts |-> IdleRcpt]

NextSummary ==
  \E q \in 1..MaxSummaries :
    \/ \E c \in Conns, chatId \in Chats : SumStart(q, c, chatId)
    \/ \E ok \in BOOLEAN : SumUnread(q, ok)
    \/ \E ok \in BOOLEAN : SumRecent(q, ok)
    \/ \E outcome \in OpenAiSummaryOutcomes : SumOpenAi(q, outcome)
    \/ \E outcome \in HfOutcomes : SumHuggingFace(q, outcome)

SpecSummary == InitSummary /\ [][NextSummary]_vars

\* ------------------------------------------------------------ properties of chat:summary
SumIds == 1..MaxSummaries

\* the places in c's inbox of the replies to request q
RepliesTo(q, c) == { k \in DOMAIN inbox[c] : inbox[c][k].req = q }

\* one reply, in the requester's inbox, and none anywhere else
ExactlyOneReply(q) ==
  /\ Cardinality(RepliesTo(q, sumReq[q].conn)) = 1
  /\ \A d \in Conns \ {sumReq[q].conn} : RepliesTo(q, d) = {}

ReplyOf(q) ==
  inbox[sumReq[q].conn][CHOOSE k \in RepliesTo(q, sumReq[q].conn) : TRUE]

\* the request made at least one external call and every call it made failed
AllExternalFailed(q) ==
  \/ sumReq[q].openai = "failed" /\ sumReq[q].hf \in {"none", "failed"}
  \/ sumReq[q].openai = "none" /\ sumReq[q].hf = "failed"

IsMember(userId, chatId) ==
  \E k \in DOMAIN chat_members :
    chat_members[k].chat_id = chatId /\ chat_members[k].user_id = userId

\* C21: a connected user adds a message to a chat only if the user has a membership
\* in it: no stored message has a sender who is not a member of its chat
C21_OnlyMembersWrite ==
  \A m \in DOMAIN messages : IsMember(messages[m].sender_id, messages[m].chat_id)

\* ------------------------------------------------------------ message:read, message:delivered
\* the places in c's inbox of everything handler h emitted
EmittedBy(h, c) == { k \in DOMAIN inbox[c] : inbox[c][k].req = h }

\* last_read_at of the user's membership rows in the chat
LastReadOf(chatId, userId) ==
  { chat_members[k].last_read_at : k \in MemberRows(chatId, userId) }

\* what a message:read handler has emitted: once it is done, one message:read with
\* its message id and user to each other connection of the room; nothing to the
\* sender or outside the room, and nothing at all before that or when it failed
ReadEmitted(h) ==
  \A c \in Conns :
    IF rcpt[h].pc = "done" /\ c \in OthersInRoom(rcpt[h].conn, rcpt[h].chatId)
    THEN /\ Cardinality(EmittedBy(h, c)) = 1
         /\ \A k \in EmittedBy(h, c) :
              inbox[c][k] = MessageReadEvent(h, rcpt[h].ids[1], userIdOf(rcpt[h].conn))
    ELSE EmittedBy(h, c) = {}

\* C23: message:read is broadcast only after the read_by update and the last-read
\* update have both succeeded, to the other connections of the room and not to the
\* sender; when either call fails nothing is emitted to anyone and the connection
\* stays active
C23_ReadBroadcastAfterBothUpdates ==
  [][ \A h \in RcptIds :
        rcpt'[h].kind = "read" =>
          /\ ReadEmitted(h)'
          /\ sock'[rcpt'[h].conn] = ActiveSocket
          /\ (rcpt[h].pc # "done" /\ rcpt'[h].pc = "done")
               => /\ rcpt[h].pc = "lastread"
                  /\ LastReadOf(rcpt[h].chatId, userIdOf(rcpt[h].conn))
                       # LastReadOf(rcpt[h].chatId, userIdOf(rcpt[h].conn))' ]_vars

\* B's message:read in c2 reached sA, and a second message:read failed
C23_Witness ==
  /\ rcpt[1].kind = "read" /\ rcpt[1].pc = "done"
  /\ rcpt[1].conn = "sB" /\ rcpt[1].chatId = "c2"
  /\ EmittedBy(1, "sA") # {}
  /\ rcpt[2].kind = "read" /\ rcpt[2].pc = "failed"

\* C24: a message:delivered handler adds the user's id to the message's delivered_to,
\* which never holds it twice, and then sends message:delivered{messageId, userId}
\* to the other connections of the room
C24_DeliveredOnceAndBroadcast ==
  [][ \A h \in RcptIds :
        (rcpt'[h].kind = "delivered" /\ rcpt[h].pc = "deliver" /\ rcpt'[h].pc = "done")
        => LET id == rcpt[h].ids[1]
               userId == userIdOf(rcpt[h].conn)
           IN /\ userId \in Range(messages'[id].delivered_to)
              /\ NoDuplicates(messages'[id].delivered_to)
              /\ inbox' = Emit(OthersInRoom(rcpt[h].conn, rcpt[h].chatId),
                               MessageDeliveredEvent(h, id, userId)) ]_vars

\* the same user reported the same message delivered twice
C24_Witness ==
  /\ rcpt[1].kind = "delivered" /\ rcpt[1].pc = "done"
  /\ rcpt[2].kind = "delivered" /\ rcpt[2].pc = "done"
  /\ rcpt[1].ids = rcpt[2].ids
  /\ userIdOf(rcpt[1].conn) = userIdOf(rcpt[2].conn)
  /\ rcpt[1].chatId = "c2" /\ rcpt[1].conn = "sB" /\ EmittedBy(1, "sA") # {}

\* ------------------------------------------------------------ notifications of chat:create
\* the places in c's inbox of the events of one type that chat:create q caused
ChatEvents(c, type, q) ==
  { k \in DOMAIN inbox[c] : inbox[c][k].type = type /\ inbox[c][k].req = q }

\* the open, set-up connections of a user
OpenConnsOf(userId) == { c \in Conns : userIdOf(c) = userId /\ Listening(c) }

\* C25: after a direct chat:create has completed while its target had an open
\* connection, the creator's connection and a connection of the target are in the
\* chat's room, the creator holds chat:created and the target chat:new, both with
\* the same chat and members
C25_DirectCreateNotifiesTarget ==
  \A q \in DOMAIN chatReq :
    LET c == chatReq[q].conn
        id == chatReq[q].chatId
        target == chatReq[q].memberIds[1]
    IN (chatReq[q].pc = "done" /\ chatReq[q].direct
        /\ target # userIdOf(c) /\ OpenConnsOf(target) # {})
       => /\ id \in rooms[c]
          /\ \E k \in ChatEvents(c, "chat:created", q) :
               \E d \in OpenConnsOf(target) :
                 /\ id \in rooms[d]
                 /\ \E j \in ChatEvents(d, "chat:new", q) :
                      /\ inbox[d][j].id = inbox[c][k].id
                      /\ inbox[d][j].members = inbox[c][k].members

\* C26: when a persistence call of a group chat:create fails, the rows written before
\* it stay (the chat row unless its insert failed, one membership per insert that
\* succeeded), the requester holds exactly one chat:error for it, nobody holds a
\* chat:new or chat:created of it, and no connection is in the new chat's room
C26_GroupCreateFailure ==
  \A q \in DOMAIN chatReq :
    (chatReq[q].pc = "error" /\ chatReq[q].isGroup)
    => /\ Cardinality(ChatEvents(chatReq[q].conn, "chat:error", q)) = 1
       /\ \A c \in Conns :
            { k \in DOMAIN inbox[c] : inbox[c][k].req = q }
              = IF c = chatReq[q].conn THEN ChatEvents(c, "chat:error", q) ELSE {}
       /\ IF chatReq[q].failed = "create"
          THEN chatReq[q].chatId = "none"
          ELSE /\ \E k \in DOMAIN chats : chats[k].id = chatReq[q].chatId
               /\ \A c \in Conns : chatReq[q].chatId \notin rooms[c]
               /\ MemberCount(chatReq[q].chatId)
                    = IF chatReq[q].failed = "members"
                      THEN 1 + Len(chatReq[q].memberIds) ELSE chatReq[q].i

\* the membership of C failed after those of the creator and of B were written
C26_Witness ==
  /\ chatReq[1].pc = "error" /\ chatReq[1].isGroup
  /\ chatReq[1].memberIds = << "B", "C" >>
  /\ chatReq[1].failed = "addMember" /\ chatReq[1].i = 2

\* the direct requests between A and B that created a chat and completed
CreatedAB == { q \in DOMAIN chatReq : /\ BetweenAB(q) /\ chatReq[q].pc = "done"
                                       /\ ~chatReq[q].reused }

\* C30: two direct requests between the same pair each create a chat only when they
\* overlap, one passing the existence check while the other has not yet written its
\* memberships; the two chats are then distinct non-group chats with membership {A, B}
C30_ConcurrentDirectCreateDuplicates ==
  \A p \in CreatedAB, q \in CreatedAB :
    p # q => /\ chatReq[p].overlap \/ chatReq[q].overlap
             /\ chatReq[p].chatId # chatReq[q].chatId
             /\ \A id \in { chatReq[p].chatId, chatReq[q].chatId } :
                  /\ ~ChatRow(id).is_group
                  /\ MemberSet(id) = {"A", "B"} /\ MemberCount(id) = 2

\* both requests have created their chat: two direct chats of A and B exist
C30_Witness ==
  /\ CreatedAB = {1, 2}
  /\ Cardinality(DirectChatsAB) = 2

\* ------------------------------------------------------------ typing indicators
\* the payload of typing:start; userName is the full_name getUserById returned
TypingStartEvent(h) ==
  [type |-> "typing:start", req |-> h, chatId |-> typReq[h].chatId,
   userId |-> userIdOf(typReq[h].conn), userName |-> userIdOf(typReq[h].conn)]

typUnchanged ==
  UNCHANGED << aiConfig, apiFailureCount, modCalls, lastCall, rooms, messages,
               moderation_logs, updated_at, sendReq, chat_members, rcpt, chats, online,
               onlineUsers, sock, chatReq, sumReq, qryReq, client >>

\* a client emits typing:start{chatId}: the listener runs up to its await of
\* getUserById
TypingStart(h, c, chatId) ==
  /\ Listening(c)
  /\ typReq[h].pc = "idle"
  /\ \A g \in 1..(h - 1) : typReq[g].pc # "idle"
  /\ typReq' = [typReq EXCEPT ![h] = [pc |-> "user", conn |-> c, chatId |-> chatId]]
  /\ UNCHANGED inbox
  /\ typUnchanged

\* getUserById settles: the event goes to the others of the room, or the catch logs
TypingStartUser(h, ok) ==
  /\ typReq[h].pc = "user"
  /\ IF ok
     THEN /\ inbox' = Emit(OthersInRoom(typReq[h].conn, typReq[h].chatId),
                           TypingStartEvent(h))
          /\ typReq' = [typReq EXCEPT ![h].pc = "done"]
     ELSE /\ typReq' = [typReq EXCEPT ![h].pc = "error"]
          /\ UNCHANGED inbox
  /\ typUnchanged

\* the sockets are set up and joined to the rooms of their users' chats
InitTyping ==
  /\ InitCommon
  /\ aiConfig = [openai |-> TRUE, huggingface |-> FALSE]
  /\ rooms = JoinedRooms

NextTyping ==
  \/ \E h \in 1..MaxTypingStarts, c \in Conns, chatId \in Chats : TypingStart(h, c, chatId)
  \/ \E h \in 1..MaxTypingStarts, ok \in BOOLEAN : TypingStartUser(h, ok)
  \/ \E c \in Conns, chatId \in Chats : TypingStopped(c, chatId)

SpecTyping == InitTyping /\ [][NextTyping]_vars

\* C22: a connection that holds a typing:stop of a chat, sent by another connection
\* after that connection's typing:start of the same chat, holds that typing:start at
\* an earlier place
C22_TypingStartBeforeStop ==
  \A d \in Conns : \A k \in DOMAIN inbox[d] :
    inbox[d][k].type = "typing:stop"
    => \A h \in inbox[d][k].after :
         \E j \in 1..(k - 1) : /\ inbox[d][j].type = "typing:start"
                               /\ inbox[d][j].req = h

\* ------------------------------------------------------------ messages:fetch, messages:search
\* message contents and search strings, written as their sequences of characters
Contents == { << "a", "b" >>, << "A", "b" >>, << "b" >> }
Queries == { << "a" >>, << "a", "b" >>, << "_" >>, << "%" >> }

\* the parameters a client may leave out
Limits == { undefined, 1, 2 }
Offsets == { undefined, 1, 2 }

\* the default of a parameter: it applies when the argument is undefined
DefaultTo(x, d) == IF x = undefined THEN d ELSE x

\* .limit(50) of searchMessages
SearchLimit == 50

\* the rows of a chat, newest first (created_at grows with the row's place)
RECURSIVE NewestFirst(_, _)
NewestFirst(chatIds, n) ==
  IF n = 0 THEN << >>
  ELSE IF messages[n].chat_id \in chatIds
       THEN << n >> \o NewestFirst(chatIds, n - 1)
       ELSE NewestFirst(chatIds, n - 1)

Reverse(seq) == [k \in 1..Len(seq) |-> seq[Len(seq) + 1 - k]]

\* a range whose last place is one too far
RangeLastInclusive(limit, offset) == offset + limit

\* the last place of .range(offset, offset + limit - 1), places counted from 0
RangeLast(limit, offset) == offset + limit - 1

\* .range(from, to) on an ordered result: the rows at places from..to, counted from 0
Range0(seq, from, to) ==
  IF from >= Len(seq) THEN << >>
  ELSE SubSeq(seq, from + 1, IF to + 1 < Len(seq) THEN to + 1 ELSE Len(seq))

\* getChatMessages(chatId, limit = 50, offset = 0): the ids of the rows returned
GetChatMessages(chatId, limit, offset) ==
  LET lim == DefaultTo(limit, 50)
      off == DefaultTo(offset, 0)
  IN Reverse(Range0(NewestFirst({chatId}, Len(messages)), off, RangeLast(lim, off)))

Lower(ch) == IF ch = "A" THEN "a" ELSE IF ch = "B" THEN "b" ELSE ch

\* SQL's ILIKE: % stands for any run of characters, _ for any one character, every
\* other character for itself in either case
RECURSIVE Ilike(_, _)
Ilike(text, pattern) ==
  IF pattern = << >> THEN text = << >>
  ELSE IF Head(pattern) = "%"
       THEN \/ Ilike(text, Tail(pattern))
            \/ text # << >> /\ Ilike(Tail(text), pattern)
  ELSE IF text = << >> THEN FALSE
  ELSE /\ Head(pattern) = "_" \/ Lower(Head(pattern)) = Lower(Head(text))
       /\ Ilike(Tail(text), Tail(pattern))

\* the second query of searchMessages: .in('chat_id', chatIds)
\* .ilike('content', `%${query}%`), newest first, .limit(50)
SearchRows(chatIds, query) ==
  LET hits == SelectSeq(NewestFirst(chatIds, Len(messages)),
                        LAMBDA m : Ilike(messages[m].content, << "%" >> \o query \o << "%" >>))
  IN SubSeq(hits, 1, IF Len(hits) < SearchLimit THEN Len(hits) ELSE SearchLimit)

MessagesFetched(f, ids) ==
  [type |-> "messages:fetched", req |-> f, chatId |-> qryReq[f].chatId, messages |-> ids]

MessagesError(f) ==
  [type |-> "messages:error", req |-> f, error |-> "Failed to fetch messages"]

SearchResults(f, ids) == [type |-> "messages:search:results", req |-> f, results |-> ids]

SearchError(f) ==
  [type |-> "messages:search:error", req |-> f, error |-> "Failed to search messages"]

qryUnchanged ==
  UNCHANGED << aiConfig, apiFailureCount, modCalls, lastCall, rooms, messages,
               moderation_logs, updated_at, sendReq, chat_members, rcpt, chats, online,
               onlineUsers, sock, chatReq, sumReq, typReq, client >>

\* a client emits messages:fetch{chatId, limit, offset}: the listener runs up to its
\* await of getChatMessages
FetchStart(f, c, chatId, limit, offset) ==
  /\ Listening(c)
  /\ qryReq[f].pc = "idle"
  /\ qryReq' = [qryReq EXCEPT ![f] = [IdleQry EXCEPT !.pc = "fetch", !.conn = c,
                   !.kind = "fetch", !.chatId = chatId, !.limit = limit,
                   !.offset = offset]]
  /\ UNCHANGED inbox
  /\ qryUnchanged

\* getChatMessages settles: the page goes to the socket, or the catch replies
FetchDone(f, ok) ==
  /\ qryReq[f].pc = "fetch"
  /\ inbox' = Emit({qryReq[f].conn},
                   IF ok THEN MessagesFetched(f, GetChatMessages(qryReq[f].chatId,
                                                    qryReq[f].limit, qryReq[f].offset))
                   ELSE MessagesError(f))
  /\ qryReq' = [qryReq EXCEPT ![f].pc = IF ok THEN "done" ELSE "error"]
  /\ qryUnchanged

\* a client emits messages:search{query}: searchMessages runs up to its await of
\* getUserChats
SearchStart(f, c, query) ==
  /\ Listening(c)
  /\ qryReq[f].pc = "idle"
  /\ qryReq' = [qryReq EXCEPT ![f] = [IdleQry EXCEPT !.pc = "chats", !.conn = c,
                   !.kind = "search", !.query = query]]
  /\ UNCHANGED inbox
  /\ qryUnchanged

\* getUserChats settles: without a chat the result is [] at once
SearchChats(f, ok) ==
  /\ qryReq[f].pc = "chats"
  /\ LET chatIds == UserChats(userIdOf(qryReq[f].conn))
     IN IF ~ok
        THEN /\ inbox' = Emit({qryReq[f].conn}, SearchError(f))
             /\ qryReq' = [qryReq EXCEPT ![f].pc = "error"]
        ELSE IF chatIds = {}
        THEN /\ inbox' = Emit({qryReq[f].conn}, SearchResults(f, << >>))
             /\ qryReq' = [qryReq EXCEPT ![f].pc = "done"]
        ELSE /\ qryReq' = [qryReq EXCEPT ![f].pc = "search", ![f].chatIds = chatIds]
             /\ UNCHANGED inbox
  /\ qryUnchanged

\* the query on messages settles
SearchDone(f, ok) ==
  /\ qryReq[f].pc = "search"
  /\ inbox' = Emit({qryReq[f].conn},
                   IF ok THEN SearchResults(f, SearchRows(qryReq[f].chatIds, qryReq[f].query))
                   ELSE SearchError(f))
  /\ qryReq' = [qryReq EXCEPT ![f].pc = IF ok THEN "done" ELSE "error"]
  /\ qryUnchanged

\* the membership rows when user B belongs to no chat
MembersWithoutB == SelectSeq(InitMembers, LAMBDA r : r.user_id # "B")

\* the sockets are set up; the table messages holds MaxStored rows of any chats and
\* contents, and B has its memberships or none
InitQuery ==
  /\ SessionEstablished
  /\ aiConfig = [openai |-> TRUE, huggingface |-> FALSE]
  /\ apiFailureCount = 0
  /\ modCalls = 0
  /\ lastCall = NoCall
  /\ rooms = JoinedRooms
  /\ inbox = [c \in Conns |-> << >>]
  /\ messages \in [1..MaxStored -> { NewMessageRow(chatId, "A", content, FALSE, FALSE) :
                                        chatId \in Chats, content \in Contents }]
  /\ moderation_logs = {}
  /\ updated_at = [ch \in Chats |-> 0]
  /\ sendReq = [r \in 1..MaxSends |-> IdleSend]
  /\ chat_members \in { InitMembers, MembersWithoutB }
  /\ rcpt = [h \in 1..MaxReceipts |-> IdleRcpt]

NextQuery ==
  \E f \in 1..MaxQueries :
    \/ \E c \in Conns, chatId \in Chats, limit \in Limits, offset \in Offsets :
         FetchStart(f, c, chatId, limit, offset)
    \/ \E ok \in BOOLEAN : FetchDone(f, ok)
    \/ \E c \in Conns, query \in Queries : SearchStart(f, c, query)
    \/ \E ok \in BOOLEAN : SearchChats(f, ok)
    \/ \E ok \in BOOLEAN : SearchDone(f, ok)

SpecQuery == InitQuery /\ [][NextQuery]_vars

\* the rank of a row among the rows of its chat, the newest having rank 1
RankOf(m) ==
  1 + Cardinality({ n \in DOMAIN messages : /\ messages[n].chat_id = messages[m].chat_id
                                             /\ n > m })

\* the events that request f caused, as << connection, place >>
QueryEvents(f) ==
  { << c, k >> \in Conns \X (1..(2 * MaxQueries)) :
      k <= Len(inbox[c]) /\ inbox[c][k].req = f }

\* C27: a messages:fetched reply is held by the requesting connection only and lists,
\* oldest first, exactly the rows of the chat whose rank, newest first, lies in
\* offset+1 .. offset+limit, where limit is 50 and offset 0 when left out
C27_FetchReturnsPage ==
  \A f \in DOMAIN qryReq : \A ev \in QueryEvents(f) :
    LET c == ev[1]
        e == inbox[c][ev[2]]
        lim == IF qryReq[f].limit = undefined THEN 50 ELSE qryReq[f].limit
        off == IF qryReq[f].offset = undefined THEN 0 ELSE qryReq[f].offset
    IN e.type = "messages:fetched"
       => /\ QueryEvents(f) = { ev }
          /\ c = qryReq[f].conn
          /\ e.chatId = qryReq[f].chatId
          /\ \A i \in 1..(Len(e.messages) - 1) : e.messages[i] < e.messages[i + 1]
          /\ Range(e.messages)
               = { m \in DOMAIN messages : /\ messages[m].chat_id = qryReq[f].chatId
                                            /\ RankOf(m) \in (off + 1)..(off + lim) }

\* a page of two rows that skips the newest row of the chat
C27_Witness ==
  \E c \in Conns : \E k \in DOMAIN inbox[c] :
    /\ inbox[c][k].type = "messages:fetched"
    /\ qryReq[inbox[c][k].req].offset = 1 /\ qryReq[inbox[c][k].req].limit = 2
    /\ Len(inbox[c][k].messages) = 2

\* text holds query as a substring, letters compared without their case
ContainsIgnoreCase(text, query) ==
  \E i \in 0..(Len(text) - Len(query)) :
    \A j \in 1..Len(query) : Lower(text[i + j]) = Lower(query[j])

\* C28: a messages:search:results reply is held by the requester only; it lists at
\* most 50 rows, newest first, which are the most recent rows that are in a chat of
\* the requester and contain the query whatever the case; it is empty for a user
\* without memberships
C28_SearchResults ==
  \A f \in DOMAIN qryReq : \A ev \in QueryEvents(f) :
    LET c == ev[1]
        e == inbox[c][ev[2]]
        mine == UserChats(userIdOf(qryReq[f].conn))
        hits == { m \in DOMAIN messages :
                    /\ messages[m].chat_id \in mine
                    /\ ContainsIgnoreCase(messages[m].content, qryReq[f].query) }
    IN e.type = "messages:search:results"
       => /\ QueryEvents(f) = { ev }
          /\ c = qryReq[f].conn
          /\ Len(e.results) <= 50
          /\ Range(e.results) \subseteq hits
          /\ \A m \in hits : m \in Range(e.results)
                                \/ /\ Len(e.results) = 50
                                   /\ \A n \in Range(e.results) : n > m
          /\ mine = {} => e.results = << >>

\* ------------------------------------------------------------ connection setup
\* the user:status{online: true} events that the setup of c put in the inbox of d
OnlineEvents(c, d) ==
  { k \in DOMAIN inbox[d] : /\ inbox[d][k].type = "user:status"
                            /\ inbox[d][k].req = c
                            /\ inbox[d][k].userId = userIdOf(c)
                            /\ inbox[d][k].online }

\* C29: when the setup of an open connection completes and both of its persistence
\* calls succeeded, the connection is in the rooms of exactly the chats of its user,
\* the user's stored online flag is true, and the connection holds exactly one
\* user:status{online: true} of this setup, no other connection more than one
C29_SetupCompletes ==
  [][ \A c \in Conns :
        ( /\ sock[c].state = "setupRooms" /\ sock'[c].state = "active"
          /\ sock'[c].setup = "ok" /\ sock'[c].open )
        => /\ rooms'[c] = UserChats(userIdOf(c))'
           /\ online'[userIdOf(c)] = TRUE
           /\ Cardinality(OnlineEvents(c, c)') = 1
           /\ \A d \in Conns : Cardinality(OnlineEvents(c, d)') <= 1 ]_vars

\* ------------------------------------------------------------ message:send and disconnects
\* message:send handlers run while sockets close and their disconnect listeners run
InitSendClose ==
  /\ InitSend
  /\ aiConfig = [openai |-> TRUE, huggingface |-> FALSE]

NextSendClose ==
  \/ \E r \in 1..MaxClosingSends :
       \/ \E c \in Conns, chatId \in Chats : SendStart(r, c, chatId)
       \/ \E outcome \in SendOutcomes : SendModerated(r, outcome)
       \/ \E ok \in BOOLEAN, bumped \in BOOLEAN : SendCreateMessage(r, ok, bumped)
       \/ \E ok \in BOOLEAN : SendCreateLog(r, ok)
       \/ \E ok \in BOOLEAN : SendGetSender(r, ok)
  \/ \E c \in Conns :
       \/ Close(c)
       \/ \E ok \in BOOLEAN : DisconnectStatus(c, ok)

SpecSendClose == InitSendClose /\ [][NextSendClose]_vars

\* C31: a message:send handler whose connection has closed goes on: when its last
\* call returns, its row is in the table messages and message:new is appended to the
\* inbox of exactly the connections that are in the room then
C31_SendCompletesAfterClose ==
  [][ \A r \in DOMAIN sendReq :
        ( /\ sendReq[r].pc = "sender" /\ sendReq'[r].pc = "delivered"
          /\ ~sock[sendReq[r].conn].open )
        => /\ sendReq[r].messageId \in DOMAIN messages'
           /\ messages'[sendReq[r].messageId].chat_id = sendReq[r].chatId
           /\ \A d \in Conns :
                IF d \in RoomOf(sendReq[r].chatId)
                THEN /\ Len(inbox'[d]) = Len(inbox[d]) + 1
                     /\ inbox'[d][Len(inbox'[d])].type = "message:new"
                     /\ inbox'[d][Len(inbox'[d])].id = sendReq[r].messageId
                ELSE inbox'[d] = inbox[d] ]_vars

\* sA closed while its handler for c1 was suspended, and sA2 holds the message:new
C31_Witness ==
  /\ sendReq[1].pc = "delivered" /\ sendReq[1].conn = "sA" /\ sendReq[1].chatId = "c1"
  /\ ~sock["sA"].open
  /\ \A k \in DOMAIN inbox["sA"] : inbox["sA"][k].type # "message:new"
  /\ \E k \in DOMAIN inbox["sA2"] : inbox["sA2"][k].type = "message:new"

\* C35: a request that got message:error has no row in the table messages
C35_ErrorOnlyWithoutRow ==
  \A r \in DOMAIN sendReq :
    sendReq[r].pc = "error" => sendReq[r].messageId \notin DOMAIN messages

\* ------------------------------------------------------------ rooms, presence, registry
\* no connection is between its handshake and the end of its connection handler
NoSetupInProgress == \A c \in Conns : sock[c].state \notin {"auth", "setupStatus", "setupRooms"}

\* C32: while no setup and no chat:create is under way, every open connection is in
\* the room of every chat in which its user has a membership
C32_RoomsCoverMemberships ==
  (NoSetupInProgress /\ NoChatInProgress)
  => \A c \in Conns :
       (Entered(sock[c]) /\ sock[c].open) => UserChats(userIdOf(c)) \subseteq rooms[c]

\* the open connections of a user for which the connection handler was called
OpenEntered(userId) ==
  { c \in Conns : userIdOf(c) = userId /\ Entered(sock[c]) /\ sock[c].open }

\* no disconnect listener is waiting for its update
NoDisconnectInProgress == \A c \in Conns : sock[c].disc # "pending"

\* C33: while no connection handler and no disconnect listener is under way, the
\* stored online flag of a user is true exactly when the user has an open connection
C33_OnlineIffConnected ==
  (NoSetupInProgress /\ NoDisconnectInProgress)
  => \A u \in Users : online[u] <=> OpenEntered(u) # {}

\* C34: a user with an open connection that entered the connection handler has an
\* entry in onlineUsers, and every entry of onlineUsers names an open connection
C34_RegistryMatchesConnections ==
  /\ \A u \in Users : OpenEntered(u) # {} => MapHas(onlineUsers, u)
  /\ \A en \in onlineUsers : sock[en[2]].open

\* ------------------------------------------------------------ the failure limit
\* the classifier has failed maxFailures - 1 times in a row; the sockets are set up
InitSendLimit ==
  /\ SessionEstablished
  /\ aiConfig = [openai |-> TRUE, huggingface |-> FALSE]
  /\ apiFailureCount = maxFailures - 1
  /\ modCalls = 0
  /\ lastCall = NoCall
  /\ rooms = JoinedRooms
  /\ inbox = [c \in Conns |-> << >>]
  /\ messages = << >>
  /\ moderation_logs = {}
  /\ updated_at = [ch \in Chats |-> 0]
  /\ sendReq = [r \in 1..MaxSends |-> IdleSend]
  /\ chat_members = InitMembers
  /\ rcpt = [h \in 1..MaxReceipts |-> IdleRcpt]

SpecSendLimit == InitSendLimit /\ [][NextSend]_vars

\* C36: once apiFailureCount is maxFailures it keeps that value, and every
\* moderateMessage call made from then on skips the classifier
C36_CounterFrozenAtLimit ==
  [][ apiFailureCount = maxFailures
      => /\ apiFailureCount' = maxFailures
         /\ \A r \in DOMAIN sendReq :
              (sendReq[r].pc = "idle" /\ sendReq'[r].pc # "idle")
              => sendReq'[r].classifier = "skipped" ]_vars

\* ------------------------------------------------------------ the client
\* a message as the store holds it; an optimistic message has its tempId as id, a
\* fetched one has no tempId
LocalMessage(id, tempId) ==
  [id |-> id, tempId |-> tempId, read_by |-> << >>, delivered_to |-> << >>]

\* the tempId of the n-th sendMessage call, the id the server gives its row
TempIdOf(n) == 1000 + n
ServerIdOf(tempId) == tempId - 900

\* the ids of the messages that a messages:fetched reply brings for a chat
FetchedList(chatId) == << LocalMessage(IF chatId = "c1" THEN 1 ELSE 2, undefined) >>

ReplyKinds == { "message:new", "message:blocked", "message:error" }

ReceiptEvents ==
  [kind : {"message:read", "message:delivered"}, ids : {{1}, {2}}, userId : {"B"}]
    \cup [kind : {"messages:seen"}, ids : {{1}, {1, 2}}, userId : {"B"}]

\* Object.keys(messages) after messages[chatId] was assigned
WithKey(keys, chatId) == IF chatId \in Range(keys) THEN keys ELSE Append(keys, chatId)

clientUnchanged ==
  UNCHANGED << aiConfig, apiFailureCount, modCalls, lastCall, rooms, inbox, messages,
               moderation_logs, updated_at, sendReq, chat_members, rcpt, chats, online,
               onlineUsers, sock, chatReq, sumReq, typReq, qryReq >>

\* SocketService.connect(token), as initAuth and the SIGNED_IN listener call it:
\* this.socket = io(...), whatever this.socket was
ClientConnect ==
  /\ \E k \in 1..MaxClientSockets :
       /\ client.sockets[k] = "none"
       /\ \A j \in 1..(k - 1) : client.sockets[j] # "none"
       /\ client' = [client EXCEPT !.sockets[k] = "open", !.socket = k]
  /\ clientUnchanged

\* sign-out: SocketService.disconnect() closes this.socket and sets it to null, the
\* store's messages are reset; what was in flight on the closed socket is lost
ClientDisconnect ==
  /\ client.socket # 0
  /\ client' = [client EXCEPT
        !.sockets[client.socket] = "closed", !.socket = 0,
        !.keys = << >>, !.lists = [ch \in Chats |-> << >>],
        !.net = SelectSeq(client.net, LAMBDA e : e.sock # client.socket)]
  /\ clientUnchanged

\* onMessagesFetched for a chat whose list is not loaded yet
ClientFetched(chatId) ==
  /\ \E k \in 1..MaxClientSockets : client.sockets[k] = "open"
  /\ chatId \notin Range(client.keys)
  /\ client' = [client EXCEPT !.lists[chatId] = FetchedList(chatId),
                               !.keys = WithKey(client.keys, chatId)]
  /\ clientUnchanged

\* the store's sendMessage(chatId, content) of a signed-in user: the optimistic
\* message is appended and message:send goes out on this.socket
ClientSend(chatId) ==
  /\ client.socket # 0
  /\ client.sent < MaxClientSends
  /\ LET t == TempIdOf(client.sent + 1)
     IN client' = [client EXCEPT
          !.lists[chatId] = Append(@, LocalMessage(t, t)),
          !.keys = WithKey(client.keys, chatId),
          !.net = Append(@, [sock |-> client.socket, tempId |-> t, chatId |-> chatId]),
          !.sent = @ + 1]
  /\ clientUnchanged

\* onNewMessage: the entry with the reply's tempId goes, the message is appended
OnNewMessage(lists, chatId, tempId) ==
  [lists EXCEPT ![chatId] =
     Append(SelectSeq(@, LAMBDA m : m.tempId # tempId),
            LocalMessage(ServerIdOf(tempId), tempId))]

\* onMessageBlocked: for each key of the messages read at the start, a set of these
\* messages with that chat's list filtered, when the filter removed something
RECURSIVE OnMessageBlocked(_, _, _, _)
OnMessageBlocked(cur, captured, keys, tempId) ==
  IF keys = << >> THEN cur
  ELSE LET filtered == SelectSeq(captured[Head(keys)], LAMBDA m : m.tempId # tempId)
       IN OnMessageBlocked(IF Len(filtered) # Len(captured[Head(keys)])
                           THEN [captured EXCEPT ![Head(keys)] = filtered] ELSE cur,
                           captured, Tail(keys), tempId)

\* the server's reply to the request at place i of the net arrives on its socket and
\* the store's listener for it runs; the store registers none for message:error
ClientReply(i, kind) ==
  /\ i \in DOMAIN client.net
  /\ client.sockets[client.net[i].sock] = "open"
  /\ LET rq == client.net[i]
         rest == [k \in 1..(Len(client.net) - 1) |->
                    IF k < i THEN client.net[k] ELSE client.net[k + 1]]
     IN client' = [client EXCEPT
          !.net = rest,
          !.lists = IF kind = "message:new" THEN OnNewMessage(@, rq.chatId, rq.tempId)
                    ELSE IF kind = "message:blocked"
                    THEN OnMessageBlocked(@, @, client.keys, rq.tempId)
                    ELSE @,
          !.keys = IF kind = "message:new" THEN WithKey(@, rq.chatId) ELSE @]
  /\ clientUnchanged

\* the map callback of onMessageRead / onMessageDelivered / onMessagesSeen
UpdateReceipt(msg, ev) ==
  IF msg.id \notin ev.ids THEN msg
  ELSE IF ev.kind = "message:delivered"
       THEN IF ev.userId \in Range(msg.delivered_to) THEN msg
            ELSE [msg EXCEPT !.delivered_to = Append(@, ev.userId)]
       ELSE IF ev.userId \in Range(msg.read_by) THEN msg
            ELSE [msg EXCEPT !.read_by = Append(@, ev.userId)]

\* the forEach of the three listeners: for each key of the messages read at the
\* start, set({ messages: { ...messages, [chatId]: chatMessages } })
RECURSIVE OnReceipt(_, _, _, _)
OnReceipt(cur, captured, keys, ev) ==
  IF keys = << >> THEN cur
  ELSE OnReceipt([captured EXCEPT ![Head(keys)] =
                     [k \in 1..Len(captured[Head(keys)]) |->
                        UpdateReceipt(captured[Head(keys)][k], ev)]],
                 captured, Tail(keys), ev)

\* a message:read, message:delivered or messages:seen event arrives
ClientReceipt(ev) ==
  /\ \E k \in 1..MaxClientSockets : client.sockets[k] = "open"
  /\ client.receipts < MaxClientReceipts
  /\ client' = [client EXCEPT
        !.lists = OnReceipt(@, @, client.keys, ev),
        !.receipts = @ + 1, !.last = ev]
  /\ clientUnchanged

InitClient ==
  /\ InitSend
  /\ aiConfig = [openai |-> TRUE, huggingface |-> FALSE]

\* the steps in which a reply of the server is handled
ClientReplies == \E i \in 1..MaxClientSends, kind \in ReplyKinds : ClientReply(i, kind)

NextClient ==
  \/ ClientConnect
  \/ ClientDisconnect
  \/ \E chatId \in Chats : ClientFetched(chatId)
  \/ \E chatId \in Chats : ClientSend(chatId)
  \/ ClientReplies
  \/ \E ev \in ReceiptEvents : ClientReceipt(ev)

SpecClient == InitClient /\ [][NextClient]_vars

\* every reply that can be handled is handled in the end
SpecClientFair == SpecClient /\ WF_vars(ClientReplies)

\* the places of the store that hold a message with one of the ids
CopiesOf(cl, ids) ==
  { << ch, k >> \in Chats \X (1..(MaxClientSends + 1)) :
      k <= Len(cl.lists[ch]) /\ cl.lists[ch][k].id \in ids }

\* C37: after the store handled a receipt event, every held copy of a message the
\* event names has the event's userId in read_by (in delivered_to for
\* message:delivered), and the lists of the chats holding no such message are as
\* they were
C37_ReceiptUpdatesEveryCopy ==
  [][ client'.receipts # client.receipts
      => LET ev == client'.last
         IN /\ \A p \in CopiesOf(client', ev.ids) :
                 ev.userId \in Range(IF ev.kind = "message:delivered"
                                     THEN client'.lists[p[1]][p[2]].delivered_to
                                     ELSE client'.lists[p[1]][p[2]].read_by)
            /\ \A ch \in Chats :
                 (\A p \in CopiesOf(client, ev.ids) : p[1] # ch)
                 => client'.lists[ch] = client.lists[ch] ]_vars

\* the optimistic message of a sendMessage call is in a list
Optimistic(t) == CopiesOf(client, {t}) # {}

\* C38: an optimistic message that is in a list is at some later time in none, and
\* no list ever holds two entries of one sendMessage call
C38_OptimisticReconciled ==
  /\ \A n \in 1..MaxClientSends : Optimistic(TempIdOf(n)) ~> ~Optimistic(TempIdOf(n))
  /\ [](\A n \in 1..MaxClientSends :
          Cardinality(CopiesOf(client, {TempIdOf(n), ServerIdOf(TempIdOf(n))})) <= 1)

\* C39: at most one socket of the client is open, and none when this.socket is null
C39_OneOpenSocket ==
  /\ Cardinality({ k \in 1..MaxClientSockets : client.sockets[k] = "open" }) <= 1
  /\ client.socket = 0 => \A k \in 1..MaxClientSockets : client.sockets[k] # "open"

====
